---- MODULE Spec2Model ----
(***************************************************************************)
(* A model of the ai-code-reviewer pipeline: the unified-diff parser       *)
(* (GitAnalyzer.parseDiff), the file filter (FileFilter.shouldReview), the *)
(* configuration defaults (ConfigLoader.mergeWithDefaults), the response   *)
(* normalizer (BaseAIProvider.parseReviewResponse), the review aggregator  *)
(* (ReviewEngine.reviewChanges and its helpers) and the review and         *)
(* github-action commands of the command line.                             *)
(*                                                                         *)
(* Text is modelled as a sequence of one-character strings, a multi-line   *)
(* text as the sequence of its lines (what split("\n") returns).           *)
(***************************************************************************)
EXTENDS Integers, Sequences, FiniteSets, TLC

(***************************************************************************)
(* Bounds of the model.                                                    *)
(***************************************************************************)
\* longest provider response (number of array elements) in the engine runs
MaxResp == 2
\* most error comments, and most other comments, in a list of SpecScore
MaxErrors == 11
MaxOther == 3
\* longest diff text (in lines) handed to parseDiff in SpecDiff
MaxDiffLines == 4
\* most user-supplied ignore patterns of a file filter in SpecFilter
MaxPatterns == 2
\* most pieces a response text of SpecNormalizer is put together from
MaxPieces == 3
\* most lines of a response text of SpecScanner
MaxScanLines == 4

(***************************************************************************)
(* Strings.                                                                *)
(***************************************************************************)
Range(s) == {s[i] : i \in 1..Len(s)}

\* String.prototype.startsWith
StartsWith(s, p) == Len(s) >= Len(p) /\ SubSeq(s, 1, Len(p)) = p

\* the rest of s from position i on (s.substring(i - 1) in 0-based terms)
From(s, i) == SubSeq(s, i, Len(s))

\* positions of character c in s
Positions(s, c) == {i \in 1..Len(s) : s[i] = c}

SetMax(S) == CHOOSE x \in S : \A y \in S : y <= x
SetMin(S) == CHOOSE x \in S : \A y \in S : x <= y

\* s.split(sep) for a one-character separator
RECURSIVE SplitOn(_, _)
SplitOn(s, sep) ==
  IF Positions(s, sep) = {} THEN <<s>>
  ELSE LET i == SetMin(Positions(s, sep))
       IN  <<SubSeq(s, 1, i - 1)>> \o SplitOn(From(s, i + 1), sep)

UpperCase == <<"A", "B", "C", "D", "E", "F", "G", "H", "I", "J", "K", "L", "M",
               "N", "O", "P", "Q", "R", "S", "T", "U", "V", "W", "X", "Y", "Z">>
LowerCase == <<"a", "b", "c", "d", "e", "f", "g", "h", "i", "j", "k", "l", "m",
               "n", "o", "p", "q", "r", "s", "t", "u", "v", "w", "x", "y", "z">>

\* String.prototype.toLowerCase
ToLowerCase(s) ==
  [i \in 1..Len(s) |->
     IF s[i] \in Range(UpperCase)
     THEN LowerCase[CHOOSE k \in 1..Len(UpperCase) : UpperCase[k] = s[i]]
     ELSE s[i]]

Digits == <<"0", "1", "2", "3", "4", "5", "6", "7", "8", "9">>
IsDigit(c) == c \in Range(Digits)
DigitValue(c) == (CHOOSE k \in 1..Len(Digits) : Digits[k] = c) - 1

\* parseInt of a non-empty run of decimal digits
RECURSIVE ParseInt(_)
ParseInt(s) ==
  IF Len(s) = 0 THEN 0
  ELSE 10 * ParseInt(SubSeq(s, 1, Len(s) - 1)) + DigitValue(s[Len(s)])

(***************************************************************************)
(* File Filter (analysis/filter).                                          *)
(***************************************************************************)
\* path.extname: from the last "." of the basename, "" when there is none or
\* when the only "." is the basename's first character
ExtName(filePath) ==
  LET parts == SplitOn(filePath, "/")
      base  == parts[Len(parts)]
      dots  == Positions(base, ".")
  IN  IF dots = {} \/ SetMax(dots) = 1 THEN <<>> ELSE From(base, SetMax(dots))

\* one path segment against one pattern segment: "*" is any run of characters
\* (a leading "." included: the filter passes dot: true); a pattern that
\* starts with "*" does not match the empty segment
RECURSIVE GlobSegment(_, _)
GlobSegment(seg, pat) ==
  IF Len(pat) = 0 THEN Len(seg) = 0
  ELSE IF pat[1] = "*"
       THEN GlobSegment(seg, Tail(pat))
            \/ (Len(seg) > 0 /\ GlobSegment(Tail(seg), pat))
       ELSE Len(seg) > 0 /\ seg[1] = pat[1] /\ GlobSegment(Tail(seg), Tail(pat))

SegmentMatch(seg, pat) ==
  /\ (Len(pat) > 0 /\ pat[1] = "*") => Len(seg) > 0
  /\ GlobSegment(seg, pat)

GlobStar == <<"*", "*">>
DotSegments == {<<".">>, <<".", ".">>}

\* minimatch's matchOne over the "/"-separated segments: a "**" segment
\* swallows any number of path segments except "." and ".."
RECURSIVE MatchOne(_, _)
MatchOne(file, pattern) ==
  IF Len(pattern) = 0 THEN Len(file) = 0
  ELSE IF Len(file) = 0 THEN FALSE
  ELSE IF pattern[1] = GlobStar
       THEN IF Len(pattern) = 1
            THEN \A i \in 1..Len(file) : file[i] \notin DotSegments
            ELSE \/ MatchOne(file, Tail(pattern))
                 \/ (file[1] \notin DotSegments /\ MatchOne(Tail(file), pattern))
       ELSE SegmentMatch(file[1], pattern[1]) /\ MatchOne(Tail(file), Tail(pattern))

\* minimatch(filePath, pattern, { dot: true }) for patterns made of literal
\* characters, "*" and "**"
Minimatch(filePath, pattern) ==
  MatchOne(SplitOn(filePath, "/"), SplitOn(pattern, "/"))

getDefaultIgnorePatterns ==
  << <<"n","o","d","e","_","m","o","d","u","l","e","s","/","*","*">>,
     <<".","g","i","t","/","*","*">>,
     <<"d","i","s","t","/","*","*">>,
     <<"b","u","i","l","d","/","*","*">>,
     <<"c","o","v","e","r","a","g","e","/","*","*">>,
     <<".","n","y","c","_","o","u","t","p","u","t","/","*","*">>,
     <<"v","e","n","d","o","r","/","*","*">>,
     <<"t","m","p","/","*","*">>,
     <<"t","e","m","p","/","*","*">>,
     <<"*",".","m","i","n",".","j","s">>,
     <<"*",".","m","i","n",".","c","s","s">>,
     <<"*",".","m","a","p">>,
     <<"p","a","c","k","a","g","e","-","l","o","c","k",".","j","s","o","n">>,
     <<"y","a","r","n",".","l","o","c","k">>,
     <<"p","n","p","m","-","l","o","c","k",".","y","a","m","l">>,
     <<".","e","n","v","*">>,
     <<"*",".","l","o","g">>,
     <<".","D","S","_","S","t","o","r","e">>,
     <<"T","h","u","m","b","s",".","d","b">>,
     <<"*",".","p","y","c">>,
     <<"_","_","p","y","c","a","c","h","e","_","_","/","*","*">>,
     <<".","p","y","t","e","s","t","_","c","a","c","h","e","/","*","*">>,
     <<".","t","o","x","/","*","*">>,
     <<"v","e","n","v","/","*","*">>,
     <<"e","n","v","/","*","*">>,
     <<".","v","e","n","v","/","*","*">> >>

reviewableExtensions ==
  { <<".","j","s">>, <<".","j","s","x">>, <<".","t","s">>, <<".","t","s","x">>,
    <<".","p","y">>, <<".","j","a","v","a">>, <<".","c","p","p">>, <<".","c">>,
    <<".","h">>, <<".","c","s">>, <<".","g","o">>, <<".","r","s">>,
    <<".","p","h","p">>, <<".","r","b">>, <<".","s","w","i","f","t">>,
    <<".","k","t">>, <<".","s","c","a","l","a">>, <<".","s","q","l">>,
    <<".","s","h">>, <<".","b","a","s","h">>, <<".","j","s","o","n">>,
    <<".","y","a","m","l">>, <<".","y","m","l">>, <<".","m","d">>,
    <<".","m","d","x">> }

\* new FileFilter(ignorePatterns, includePatterns): the defaults come first
FileFilter(ignorePatterns, includePatterns) ==
  [ignorePatterns  |-> getDefaultIgnorePatterns \o ignorePatterns,
   includePatterns |-> includePatterns]

isIgnored(ff, filePath) ==
  \E k \in 1..Len(ff.ignorePatterns) : Minimatch(filePath, ff.ignorePatterns[k])

isIncluded(ff, filePath) ==
  \E k \in 1..Len(ff.includePatterns) : Minimatch(filePath, ff.includePatterns[k])

isReviewableFile(filePath) == ToLowerCase(ExtName(filePath)) \in reviewableExtensions

shouldReviewIncludeFirst(ff, filePath) ==
  IF Len(ff.includePatterns) > 0 THEN isIncluded(ff, filePath)
  ELSE IF isIgnored(ff, filePath) THEN FALSE
  ELSE isReviewableFile(filePath)

shouldReview(ff, filePath) ==
  IF isIgnored(ff, filePath) THEN FALSE
  ELSE IF Len(ff.includePatterns) > 0 THEN isIncluded(ff, filePath)
  ELSE isReviewableFile(filePath)

(***************************************************************************)
(* Diff Parser (analysis/git.ts).                                          *)
(***************************************************************************)
\* the character at position i, "" past either end
At(s, i) == IF i \in 1..Len(s) THEN s[i] ELSE ""

\* does p occur in s at position i
OccursAt(s, p, i) == i >= 1 /\ i + Len(p) - 1 <= Len(s) /\ SubSeq(s, i, i + Len(p) - 1) = p

\* the length of the run of digits of s that starts at position i
RECURSIVE DigitRun(_, _)
DigitRun(s, i) == IF IsDigit(At(s, i)) THEN 1 + DigitRun(s, i + 1) ELSE 0

DiffGit == <<"d","i","f","f"," ","-","-","g","i","t">>

\* diff.split(/^diff --git/m).slice(1), each block then split("\n"): a block
\* starts at every line that begins with "diff --git" and its first line is the
\* rest of that line; every block but the last ends with the newline before
\* the next marker, which split("\n") returns as a trailing empty line
FileStarts(diff) == {i \in 1..Len(diff) : StartsWith(diff[i], DiffGit)}

SplitFiles(diff) ==
  LET starts == FileStarts(diff)
      Nth[k \in 1..Cardinality(starts)] ==
        IF k = 1 THEN SetMin(starts)
        ELSE SetMin({i \in starts : i > Nth[k - 1]})
  IN  [k \in 1..Cardinality(starts) |->
         LET first == Nth[k]
             last  == IF k = Cardinality(starts) THEN Len(diff) ELSE Nth[k + 1] - 1
         IN  <<From(diff[first], Len(DiffGit) + 1)>>
             \o SubSeq(diff, first + 1, last)
             \o (IF k = Cardinality(starts) THEN <<>> ELSE << <<>> >>)]

\* headerLine.match(/a\/(.+) b\/(.+)/): group 2 starts after the last " b/"
\* that leaves a character after it and one between it and an earlier "a/"
HeaderSplits(headerLine) ==
  {q \in 1..Len(headerLine) :
     /\ OccursAt(headerLine, <<" ", "b", "/">>, q)
     /\ q + 3 <= Len(headerLine)
     /\ \E p \in 1..Len(headerLine) :
          OccursAt(headerLine, <<"a", "/">>, p) /\ p + 3 <= q}

fileMatch(headerLine) == HeaderSplits(headerLine) # {}

filePathOf(headerLine) == From(headerLine, SetMax(HeaderSplits(headerLine)) + 3)

\* /@@ -(\d+)(?:,(\d+))? \+(\d+)(?:,(\d+))? @@/ tried at position s: the four
\* groups as digit strings (<<>> for a group that did not take part)
HunkMatchAt(line, s) ==
  LET i1 == s + 4
      n1 == DigitRun(line, i1)
      c1 == i1 + n1
      has2 == At(line, c1) = ","
      i2 == c1 + 1
      n2 == IF has2 THEN DigitRun(line, i2) ELSE 0
      p  == IF has2 THEN i2 + n2 ELSE c1
      i3 == p + 2
      n3 == DigitRun(line, i3)
      c3 == i3 + n3
      has4 == At(line, c3) = ","
      i4 == c3 + 1
      n4 == IF has4 THEN DigitRun(line, i4) ELSE 0
      e  == IF has4 THEN i4 + n4 ELSE c3
  IN  [ok |-> /\ OccursAt(line, <<"@", "@", " ", "-">>, s)
              /\ n1 >= 1
              /\ (has2 => n2 >= 1)
              /\ OccursAt(line, <<" ", "+">>, p)
              /\ n3 >= 1
              /\ (has4 => n4 >= 1)
              /\ OccursAt(line, <<" ", "@", "@">>, e),
       g1 |-> SubSeq(line, i1, i1 + n1 - 1),
       g2 |-> SubSeq(line, i2, i2 + n2 - 1),
       g3 |-> SubSeq(line, i3, i3 + n3 - 1),
       g4 |-> SubSeq(line, i4, i4 + n4 - 1)]

HunkMatchStarts(line) == {s \in 1..Len(line) : HunkMatchAt(line, s).ok}

\* line.match(...): the leftmost match, or no match
hunkMatch(line) == HunkMatchStarts(line) # {}

\* the GitHunk a matching header opens; an absent length group counts as "1"
NewHunk(line) ==
  LET m == HunkMatchAt(line, SetMin(HunkMatchStarts(line)))
  IN  [oldStart |-> ParseInt(m.g1),
       oldLines |-> IF Len(m.g2) = 0 THEN 1 ELSE ParseInt(m.g2),
       newStart |-> ParseInt(m.g3),
       newLines |-> IF Len(m.g4) = 0 THEN 1 ELSE ParseInt(m.g4),
       lines    |-> <<>>]

\* The parser's state inside one file block. GitHunk objects live in `heap`;
\* change.hunks and currentHunk refer to them by position (0 is null), so a
\* hunk pushed while it still is currentHunk keeps receiving lines.
NewFileState(filePath) ==
  [file |-> filePath, additions |-> <<>>, deletions |-> <<>>, context |-> <<>>,
   hunks |-> <<>>, heap |-> <<>>, currentHunk |-> 0, inHunk |-> FALSE]

\* the branch of the line loop taken for a line that starts with "@@"
HunkHeaderLine(st, line) ==
  LET pushed == IF st.currentHunk # 0 THEN Append(st.hunks, st.currentHunk)
                ELSE st.hunks
  IN  IF hunkMatch(line)
      THEN [st EXCEPT !.hunks = pushed,
                      !.heap = Append(st.heap, NewHunk(line)),
                      !.currentHunk = Len(st.heap) + 1,
                      !.inHunk = TRUE]
      ELSE [st EXCEPT !.hunks = pushed]

\* the branch taken for any other line while a hunk is open
HunkBodyLine(st, line) ==
  LET st1 == [st EXCEPT !.heap[st.currentHunk].lines = Append(@, line)]
  IN  IF StartsWith(line, <<"+">>) /\ ~StartsWith(line, <<"+", "+", "+">>)
      THEN [st1 EXCEPT !.additions = Append(@, From(line, 2))]
      ELSE IF StartsWith(line, <<"-">>) /\ ~StartsWith(line, <<"-", "-", "-">>)
      THEN [st1 EXCEPT !.deletions = Append(@, From(line, 2))]
      ELSE IF StartsWith(line, <<" ">>)
      THEN [st1 EXCEPT !.context = Append(@, From(line, 2))]
      ELSE st1

\* one iteration of the loop over lines[1..]
ParseLine(st, line) ==
  IF StartsWith(line, <<"@", "@">>) THEN HunkHeaderLine(st, line)
  ELSE IF st.inHunk /\ st.currentHunk # 0 THEN HunkBodyLine(st, line)
  ELSE st

RECURSIVE ParseLines(_, _, _)
ParseLines(st, lines, i) ==
  IF i > Len(lines) THEN st ELSE ParseLines(ParseLine(st, lines[i]), lines, i + 1)

\* CloseFile without the push of the hunk still open
CloseFileNoPush(st) == st

\* after the line loop: the hunk still open is pushed
CloseFile(st) ==
  IF st.currentHunk # 0 THEN [st EXCEPT !.hunks = Append(@, st.currentHunk)] ELSE st

\* the CodeChange the block's state stands for, its hunks dereferenced
CodeChangeOf(st) ==
  [file |-> st.file, additions |-> st.additions, deletions |-> st.deletions,
   context |-> st.context,
   hunks |-> [k \in 1..Len(st.hunks) |-> st.heap[st.hunks[k]]]]

\* one iteration of the loop over the file blocks
ParseFile(changes, lines) ==
  IF ~fileMatch(lines[1]) THEN changes
  ELSE LET st == CloseFile(ParseLines(NewFileState(filePathOf(lines[1])), lines, 2))
       IN  IF Len(st.hunks) > 0 THEN Append(changes, CodeChangeOf(st)) ELSE changes

RECURSIVE ParseFiles(_, _, _)
ParseFiles(changes, files, k) ==
  IF k > Len(files) THEN changes
  ELSE ParseFiles(ParseFile(changes, files[k]), files, k + 1)

parseDiff(diff) == ParseFiles(<<>>, SplitFiles(diff), 1)

(***************************************************************************)
(* Configuration (config/loader.ts). An optional field is <<>> when it is  *)
(* not set and <<v>> when it is set to v.                                  *)
(***************************************************************************)
None == <<>>
Some(v) == <<v>>

\* ConfigLoader.mergeWithDefaults, for the fields the pipeline reads
mergeWithDefaults(config) ==
  [aiProvider |->
     IF config.aiProvider # None /\ config.aiProvider[1] # ""
     THEN config.aiProvider ELSE Some("openai"),
   ignorePatterns |->
     IF config.ignorePatterns # None THEN config.ignorePatterns ELSE Some(<<>>),
   severityThreshold |->
     IF config.severityThreshold # None /\ config.severityThreshold[1] # ""
     THEN config.severityThreshold ELSE Some("medium"),
   autoApprove |->
     IF config.autoApprove # None /\ config.autoApprove[1]
     THEN config.autoApprove ELSE Some(FALSE),
   requireApprovalFor |->
     IF config.requireApprovalFor # None
     THEN config.requireApprovalFor ELSE Some(<<"error">>)]

(***************************************************************************)
(* Review comments and the aggregator's pure helpers (review/engine.ts).   *)
(***************************************************************************)
Severities == {"info", "warning", "error"}

CategoryOrder == <<"code-quality", "security", "performance", "maintainability",
                   "style", "testing", "documentation">>
Categories == Range(CategoryOrder)

\* a line number as JavaScript holds it
Number(n) == [t |-> "number", n |-> n]
Undefined == [t |-> "undefined", n |-> 0]
NaN == [t |-> "NaN", n |-> 0]

\* a ReviewComment; "" and <<>> stand for a field that is empty or missing
Comment(file, line, message, severity, category, suggestion) ==
  [file |-> file, line |-> line, message |-> message, severity |-> severity,
   category |-> category, suggestion |-> suggestion]

\* isValidComment without the check of the category
isValidCommentAnyCategory(comment) ==
  /\ comment.message # ""
  /\ comment.severity # ""
  /\ comment.severity \in {"info", "warning", "error"}


isValidComment(comment) ==
  /\ comment.message # ""
  /\ comment.severity # ""
  /\ comment.severity \in {"info", "warning", "error"}
  /\ comment.category # ""
  /\ comment.category \in Categories

severityOrder == [info |-> 1, warning |-> 2, error |-> 3]
thresholdOrder == [low |-> 1, medium |-> 2, high |-> 3]

\* meetsSeverityThreshold reading no threshold from the configuration
meetsSeverityThresholdUnconfigured(config, comment) ==
  severityOrder[comment.severity] >= thresholdOrder["low"]


meetsSeverityThreshold(config, comment) ==
  LET threshold == IF config.severityThreshold # None /\ config.severityThreshold[1] # ""
                   THEN config.severityThreshold[1] ELSE "low"
  IN  severityOrder[comment.severity] >= thresholdOrder[threshold]

\* the .map step writing the change's path over every comment's file
StampFileAlways(comment, filePath) ==
  [comment EXCEPT !.file = filePath]

\* the .map step: a missing file is stamped with the change's path
StampFile(comment, filePath) ==
  [comment EXCEPT !.file = IF comment.file # <<>> THEN comment.file ELSE filePath]

\* What provider.review resolves to is whatever JSON.parse or the line scanner
\* returned: an array whose elements are objects or null, or a value that is
\* no array. Reading a property of null and calling .filter on a non-array
\* both throw a TypeError.
NullItem == [kind |-> "null"]
ObjectItem(comment) == [kind |-> "object", v |-> comment]

ValidationThrows(response) ==
  \/ response.kind # "array"
  \/ \E k \in 1..Len(response.items) : response.items[k].kind = "null"

validateAndFilterComments(config, items, filePath) ==
  LET comments == [k \in 1..Len(items) |-> items[k].v]
      valid    == SelectSeq(comments, isValidComment)
      kept     == SelectSeq(valid, LAMBDA c : meetsSeverityThreshold(config, c))
  IN  [k \in 1..Len(kept) |-> StampFile(kept[k], filePath)]

\* the comment the catch block of the file loop pushes
FailureComment(filePath) ==
  Comment(filePath, Number(1), "Failed to review file: <error>", "warning",
          "code-quality", "")

\* ReviewOne with a file's comments put in front of the list
ReviewOnePrepends(config, allComments, change, response) ==
  IF response.kind = "throw" \/ ValidationThrows(response)
  THEN <<FailureComment(change.file)>> \o allComments
  ELSE validateAndFilterComments(config, response.items, change.file) \o allComments

\* ReviewOne with the catch block assigning the list instead of pushing to it
ReviewOneResetsList(config, allComments, change, response) ==
  IF response.kind = "throw" \/ ValidationThrows(response)
  THEN <<FailureComment(change.file)>>
  ELSE allComments \o validateAndFilterComments(config, response.items, change.file)

\* one iteration of the file loop, given what provider.review did
ReviewOne(config, allComments, change, response) ==
  IF response.kind = "throw" \/ ValidationThrows(response)
  THEN Append(allComments, FailureComment(change.file))
  ELSE allComments \o validateAndFilterComments(config, response.items, change.file)

RECURSIVE categorizeFrom(_, _, _)
categorizeFrom(categories, comments, k) ==
  IF k > Len(comments) THEN categories
  ELSE LET cat == comments[k].category
           old == IF cat \in DOMAIN categories THEN categories[cat] ELSE 0
       IN  categorizeFrom([x \in DOMAIN categories \cup {cat} |->
                             IF x = cat THEN old + 1 ELSE categories[x]],
                          comments, k + 1)

\* categorizeComments starting from an empty record
categorizeCommentsSparse(comments) ==
  categorizeFrom([x \in {} |-> 0], comments, 1)


categorizeComments(comments) ==
  categorizeFrom([x \in Categories |-> 0], comments, 1)

weights == [error |-> -10, warning |-> -5, info |-> -1]

RECURSIVE penaltyFrom(_, _)
penaltyFrom(comments, k) ==
  IF k > Len(comments) THEN 0
  ELSE weights[comments[k].severity] + penaltyFrom(comments, k + 1)

Max(a, b) == IF a >= b THEN a ELSE b
Min(a, b) == IF a <= b THEN a ELSE b

\* calculateScore charging every comment the warning's weight
calculateScoreFlatWeight(comments) ==
  IF Len(comments) = 0 THEN 100
  ELSE Max(0, Min(100, 100 - 5 * Len(comments)))

\* calculateScore without the lower clamp
calculateScoreNoFloor(comments) ==
  IF Len(comments) = 0 THEN 100
  ELSE Min(100, 100 + penaltyFrom(comments, 1))


calculateScore(comments) ==
  IF Len(comments) = 0 THEN 100
  ELSE Max(0, Min(100, 100 + penaltyFrom(comments, 1)))

\* shouldApprove approving an empty list only when autoApprove is set
shouldApproveNeedsAuto(config, comments) ==
  IF Len(comments) = 0
  THEN config.autoApprove # None /\ config.autoApprove[1]
  ELSE LET blockingIssues ==
             SelectSeq(comments,
                       LAMBDA c : /\ config.requireApprovalFor # None
                                  /\ c.severity \in Range(config.requireApprovalFor[1]))
       IN  Len(blockingIssues) = 0

\* shouldApprove testing for "error" instead of the configured list
shouldApproveErrorsOnly(config, comments) ==
  IF config.autoApprove # None /\ config.autoApprove[1] /\ Len(comments) = 0
  THEN TRUE
  ELSE Len(SelectSeq(comments, LAMBDA c : c.severity = "error")) = 0


shouldApprove(config, comments) ==
  IF config.autoApprove # None /\ config.autoApprove[1] /\ Len(comments) = 0
  THEN TRUE
  ELSE LET blockingIssues ==
             SelectSeq(comments,
                       LAMBDA c : /\ config.requireApprovalFor # None
                                  /\ c.severity \in Range(config.requireApprovalFor[1]))
       IN  Len(blockingIssues) = 0

CountSeverity(comments, severity) ==
  Len(SelectSeq(comments, LAMBDA c : c.severity = severity))

\* the categories with a non-zero count, by count descending (the sort is
\* stable, so ties stay in enumeration order), the first three
TopCategories(comments) ==
  LET counts  == categorizeComments(comments)
      entries == SelectSeq(CategoryOrder, LAMBDA c : counts[c] > 0)
      rank(k) == Cardinality({j \in 1..Len(entries) :
                    \/ counts[entries[j]] > counts[entries[k]]
                    \/ (counts[entries[j]] = counts[entries[k]] /\ j < k)}) + 1
      sorted  == [r \in 1..Len(entries) |->
                    entries[CHOOSE k \in 1..Len(entries) : rank(k) = r]]
  IN  SubSeq(sorted, 1, Min(3, Len(sorted)))

\* a summary text: its fixed first line, then the numbers and category names
\* the template interpolates
SummaryText(head, counts, top) == [head |-> head, counts |-> counts, top |-> top]

generateSummary(comments, score) ==
  IF Len(comments) = 0
  THEN SummaryText("No issues found. Code looks good!", <<>>, <<>>)
  ELSE LET line(label, n) == IF n > 0 THEN << [label |-> label, n |-> n] >> ELSE <<>>
       IN  SummaryText("AI Code Review Summary",
                       << [label |-> "score", n |-> score] >>
                       \o line("error(s) found", CountSeverity(comments, "error"))
                       \o line("warning(s) found", CountSeverity(comments, "warning"))
                       \o line("info item(s) found", CountSeverity(comments, "info")),
                       TopCategories(comments))

buildResult(config, comments) ==
  [comments   |-> comments,
   summary    |-> generateSummary(comments, calculateScore(comments)),
   approved   |-> shouldApprove(config, comments),
   score      |-> calculateScore(comments),
   categories |-> categorizeComments(comments)]

\* createEmptyResult with the score left at 0
createEmptyResultZeroScore(message) ==
  [comments   |-> <<>>,
   summary    |-> SummaryText(message, <<>>, <<>>),
   approved   |-> TRUE,
   score      |-> 0,
   categories |-> [x \in Categories |-> 0]]


createEmptyResult(message) ==
  [comments   |-> <<>>,
   summary    |-> SummaryText(message, <<>>, <<>>),
   approved   |-> TRUE,
   score      |-> 100,
   categories |-> [x \in Categories |-> 0]]

filterReviewableChanges(config, changes) ==
  LET fileFilter == FileFilter(IF config.ignorePatterns # None
                               THEN config.ignorePatterns[1] ELSE <<>>, <<>>)
  IN  SelectSeq(changes, LAMBDA change : shouldReview(fileFilter, change.file))

\* ProviderFactory.create looking at the API key only
ProviderCreatedAnyName(config, env) ==
  LET provider == IF config.aiProvider # None THEN config.aiProvider[1] ELSE ""
      envKey   == IF provider = "openai" THEN "OPENAI_API_KEY" ELSE "ANTHROPIC_API_KEY"
  IN  envKey \in env

\* ProviderFactory.getApiKey and ProviderFactory.create: does construction
\* succeed with these environment variables set to a non-empty value
ProviderCreated(config, env) ==
  LET provider == IF config.aiProvider # None THEN config.aiProvider[1] ELSE ""
      envKey   == IF provider = "openai" THEN "OPENAI_API_KEY" ELSE "ANTHROPIC_API_KEY"
  IN  envKey \in env /\ provider \in {"openai", "anthropic"}

\* the error ProviderFactory.create throws when construction fails: the one
\* of getApiKey, which runs first, or the one of the switch
ProviderError(config, env) ==
  LET provider == IF config.aiProvider # None THEN config.aiProvider[1] ELSE ""
      envKey   == IF provider = "openai" THEN "OPENAI_API_KEY" ELSE "ANTHROPIC_API_KEY"
  IN  IF envKey \notin env THEN "environment variable is required"
      ELSE "Unsupported AI provider"

(***************************************************************************)
(* Response normalizer (providers/base.ts). A response text is a sequence  *)
(* of one-character strings in which "\n" is the newline. JavaScript       *)
(* values are records tagged by their type; an object's fields are a       *)
(* function from its keys (texts) to their values.                         *)
(***************************************************************************)
JNull == [t |-> "null"]
JBool(b) == [t |-> "boolean", b |-> b]
JNum(n) == [t |-> "number", n |-> n]
JNaN == [t |-> "NaN"]
JStr(chars) == [t |-> "string", s |-> chars]
JArr(items) == [t |-> "array", items |-> items]
JObj(fields) == [t |-> "object", fields |-> fields]

\* the result of a parsing step: a value and the position after it, or failure
Parsed(v, next) == [ok |-> TRUE, v |-> v, next |-> next]
Fail == [ok |-> FALSE, v |-> JNull, next |-> 0]

WhiteSpace == {" ", "\n", "\t", "\r"}

RECURSIVE SkipWs(_, _)
SkipWs(s, i) == IF At(s, i) \in WhiteSpace THEN SkipWs(s, i + 1) ELSE i

\* String.prototype.trim
RECURSIVE TrimEnd(_)
TrimEnd(s) ==
  IF Len(s) > 0 /\ s[Len(s)] \in WhiteSpace THEN TrimEnd(SubSeq(s, 1, Len(s) - 1)) ELSE s

Trim(s) == TrimEnd(From(s, SkipWs(s, 1)))

\* a JSON string from its opening quote at i - 1: the characters up to the
\* closing quote; an escape stands for one character, a raw newline or tab is
\* a syntax error, and so is the end of the text
Escapes == [x \in {"\"", "\\", "/", "n", "t"} |->
              IF x = "n" THEN "\n" ELSE IF x = "t" THEN "\t" ELSE x]

RECURSIVE ParseStringFrom(_, _, _)
ParseStringFrom(s, i, acc) ==
  LET c == At(s, i)
  IN  IF c = "" \/ c \in {"\n", "\t", "\r"} THEN Fail
      ELSE IF c = "\"" THEN Parsed(JStr(acc), i + 1)
      ELSE IF c = "\\"
           THEN IF At(s, i + 1) \in DOMAIN Escapes
                THEN ParseStringFrom(s, i + 2, Append(acc, Escapes[At(s, i + 1)]))
                ELSE Fail
      ELSE ParseStringFrom(s, i + 1, Append(acc, c))

\* a JSON number without fraction and exponent: -? (0 | [1-9][0-9]*)
ParseNumber(s, i) ==
  LET neg   == At(s, i) = "-"
      first == IF neg THEN i + 1 ELSE i
      run   == IF At(s, first) = "0" THEN 1 ELSE DigitRun(s, first)
      n     == ParseInt(SubSeq(s, first, first + run - 1))
  IN  IF run = 0 THEN Fail
      ELSE Parsed(JNum(IF neg THEN 0 - n ELSE n), first + run)

Literals ==
  << [text |-> <<"n","u","l","l">>, v |-> JNull],
     [text |-> <<"t","r","u","e">>, v |-> JBool(TRUE)],
     [text |-> <<"f","a","l","s","e">>, v |-> JBool(FALSE)] >>

ParseLiteral(s, i) ==
  LET hits == {k \in 1..Len(Literals) : OccursAt(s, Literals[k].text, i)}
  IN  IF hits = {} THEN Fail
      ELSE LET k == CHOOSE k \in hits : TRUE
           IN  Parsed(Literals[k].v, i + Len(Literals[k].text))

\* JSON values, arrays and objects by recursive descent; i is the position of
\* the next character that is not white space
RECURSIVE ParseValue(_, _), ParseElements(_, _, _), ParseMembers(_, _, _)
ParseValue(s, i) ==
  LET c == At(s, i)
  IN  IF c = "[" THEN
        IF At(s, SkipWs(s, i + 1)) = "]"
        THEN Parsed(JArr(<<>>), SkipWs(s, i + 1) + 1)
        ELSE ParseElements(s, SkipWs(s, i + 1), <<>>)
      ELSE IF c = "{" THEN
        IF At(s, SkipWs(s, i + 1)) = "}"
        THEN Parsed(JObj(<<>>), SkipWs(s, i + 1) + 1)
        ELSE ParseMembers(s, SkipWs(s, i + 1), <<>>)
      ELSE IF c = "\"" THEN ParseStringFrom(s, i + 1, <<>>)
      ELSE IF c = "-" \/ IsDigit(c) THEN ParseNumber(s, i)
      ELSE ParseLiteral(s, i)

\* the elements of an array after "[" or ",": a value, then "," or "]"
ParseElements(s, i, acc) ==
  LET e == ParseValue(s, i)
      j == SkipWs(s, e.next)
  IN  IF ~e.ok THEN Fail
      ELSE IF At(s, j) = "," THEN ParseElements(s, SkipWs(s, j + 1), Append(acc, e.v))
      ELSE IF At(s, j) = "]" THEN Parsed(JArr(Append(acc, e.v)), j + 1)
      ELSE Fail

\* the members of an object after "{" or ",": a string key, ":", a value, then
\* "," or "}"; a repeated key keeps its last value
ParseMembers(s, i, fields) ==
  LET key   == IF At(s, i) = "\"" THEN ParseStringFrom(s, i + 1, <<>>) ELSE Fail
      colon == SkipWs(s, key.next)
      val   == IF key.ok /\ At(s, colon) = ":"
               THEN ParseValue(s, SkipWs(s, colon + 1)) ELSE Fail
      j     == SkipWs(s, val.next)
      added == (key.v.s :> val.v) @@ fields
  IN  IF ~val.ok THEN Fail
      ELSE IF At(s, j) = "," THEN ParseMembers(s, SkipWs(s, j + 1), added)
      ELSE IF At(s, j) = "}" THEN Parsed(JObj(added), j + 1)
      ELSE Fail

\* JSON.parse: one value with white space around it and nothing else; ok is
\* FALSE where JSON.parse throws a SyntaxError
JsonParse(s) ==
  LET r == ParseValue(s, SkipWs(s, 1))
  IN  IF r.ok /\ SkipWs(s, r.next) = Len(s) + 1 THEN r ELSE Fail

\* the backquote character, which a TLA+ string cannot hold
Backtick == "backquote"

\* response.match of the fenced-JSON pattern (three backquotes, "json", a
\* newline, the shortest text, a newline, three backquotes): the leftmost
\* opening fence that has a closing fence after it, and the text up to the
\* first such closing fence
FenceOpen == <<Backtick, Backtick, Backtick, "j", "s", "o", "n", "\n">>
FenceClose == <<"\n", Backtick, Backtick, Backtick>>

FenceCloses(response, i) ==
  {k \in (i + Len(FenceOpen))..Len(response) : OccursAt(response, FenceClose, k)}

FenceStarts(response) ==
  {i \in 1..Len(response) :
     OccursAt(response, FenceOpen, i) /\ FenceCloses(response, i) # {}}

jsonMatch(response) == FenceStarts(response) # {}

\* jsonMatch[1], the captured group
jsonMatchGroup(response) ==
  LET i == SetMin(FenceStarts(response))
  IN  SubSeq(response, i + Len(FenceOpen), SetMin(FenceCloses(response, i)) - 1)

\* parseInt of a trimmed text: an optional sign and the leading digits, NaN
\* when there is no digit
parseIntOf(text) ==
  LET signed == At(text, 1) \in {"+", "-"}
      first  == IF signed THEN 2 ELSE 1
      run    == DigitRun(text, first)
      n      == ParseInt(SubSeq(text, first, first + run - 1))
  IN  IF run = 0 THEN JNaN
      ELSE JNum(IF At(text, 1) = "-" THEN 0 - n ELSE n)

KeyFile == <<"f", "i", "l", "e">>
KeyLine == <<"l", "i", "n", "e">>
KeySeverity == <<"s", "e", "v", "e", "r", "i", "t", "y">>
KeyCategory == <<"c", "a", "t", "e", "g", "o", "r", "y">>
KeyMessage == <<"m", "e", "s", "s", "a", "g", "e">>
KeySuggestion == <<"s", "u", "g", "g", "e", "s", "t", "i", "o", "n">>

SeverityInfo == <<"i", "n", "f", "o">>
SeverityWarning == <<"w", "a", "r", "n", "i", "n", "g">>
SeverityError == <<"e", "r", "r", "o", "r">>

\* the prefix of a scanner line with its colon
Label(key) == <<IF key[1] \in Range(LowerCase)
                THEN UpperCase[CHOOSE k \in 1..Len(LowerCase) : LowerCase[k] = key[1]]
                ELSE key[1]>> \o Tail(key) \o <<":">>

\* line.replace(label, "").trim() for a line that starts with the label
AfterLabel(line, key) == Trim(From(line, Len(Label(key)) + 1))

\* is the field of the object set to a non-empty string
Truthy(fields, key) == key \in DOMAIN fields /\ fields[key] # JStr(<<>>)

Set(fields, key, v) == (key :> v) @@ fields

\* one line of parseTextResponse's loop; st holds comments and currentComment
ScanLine(st, line) ==
  IF StartsWith(line, Label(KeyFile)) THEN
    [comments |-> IF Truthy(st.currentComment, KeyFile)
                  THEN Append(st.comments, JObj(st.currentComment))
                  ELSE st.comments,
     currentComment |-> Set(<<>>, KeyFile, JStr(AfterLabel(line, KeyFile)))]
  ELSE IF StartsWith(line, Label(KeyLine)) THEN
    [st EXCEPT !.currentComment = Set(@, KeyLine, parseIntOf(AfterLabel(line, KeyLine)))]
  ELSE IF StartsWith(line, Label(KeySeverity)) THEN
    LET severity == ToLowerCase(AfterLabel(line, KeySeverity))
    IN  [st EXCEPT !.currentComment =
           Set(@, KeySeverity,
               JStr(IF severity \in {SeverityInfo, SeverityWarning, SeverityError}
                    THEN severity ELSE SeverityWarning))]
  ELSE IF StartsWith(line, Label(KeyCategory)) THEN
    [st EXCEPT !.currentComment = Set(@, KeyCategory, JStr(AfterLabel(line, KeyCategory)))]
  ELSE IF StartsWith(line, Label(KeyMessage)) THEN
    [st EXCEPT !.currentComment = Set(@, KeyMessage, JStr(AfterLabel(line, KeyMessage)))]
  ELSE IF StartsWith(line, Label(KeySuggestion)) THEN
    [st EXCEPT !.currentComment =
       Set(@, KeySuggestion, JStr(AfterLabel(line, KeySuggestion)))]
  ELSE st

RECURSIVE ScanLines(_, _, _)
ScanLines(st, lines, i) ==
  IF i > Len(lines) THEN st ELSE ScanLines(ScanLine(st, lines[i]), lines, i + 1)

parseTextResponseFlushesFile(response) ==
  LET st == ScanLines([comments |-> <<>>, currentComment |-> <<>>],
                      SplitOn(response, "\n"), 1)
  IN  JArr(IF Truthy(st.currentComment, KeyFile)
           THEN Append(st.comments, JObj(st.currentComment))
           ELSE st.comments)

parseTextResponse(response) ==
  LET st == ScanLines([comments |-> <<>>, currentComment |-> <<>>],
                      SplitOn(response, "\n"), 1)
  IN  JArr(IF Truthy(st.currentComment, KeyFile) /\ Truthy(st.currentComment, KeyMessage)
           THEN Append(st.comments, JObj(st.currentComment))
           ELSE st.comments)

\* how a call ends: it returns a value or it throws
Returns(v) == [threw |-> FALSE, v |-> v]
Throws == [threw |-> TRUE, v |-> JNull]

JsonParseOutcome(text) ==
  LET r == JsonParse(text) IN IF r.ok THEN Returns(r.v) ELSE Throws

\* the try block of parseReviewResponse
parseReviewResponseTry(response) ==
  IF jsonMatch(response) THEN JsonParseOutcome(jsonMatchGroup(response))
  ELSE LET directJson == Trim(response)
       IN  IF StartsWith(directJson, <<"[">>) \/ StartsWith(directJson, <<"{">>)
           THEN JsonParseOutcome(directJson)
           ELSE Returns(parseTextResponse(response))

parseReviewResponseNoCatch(response) == parseReviewResponseTry(response)

parseReviewResponse(response) ==
  IF parseReviewResponseTry(response).threw
  THEN Returns(parseTextResponse(response))
  ELSE parseReviewResponseTry(response)

(***************************************************************************)
(* Inputs.                                                                 *)
(***************************************************************************)
SeqsUpTo(S, n) == UNION {[1..k -> S] : k \in 0..n}

PathA == <<"a", ".", "t", "s">>
PathB == <<"b", ".", "m", "d">>
PathDist == <<"d", "i", "s", "t", "/", "x", ".", "j", "s">>
PathImage == <<"i", ".", "p", "n", "g">>
PathOther == <<"z", ".", "t", "s">>

\* the "diff --git a/<path> b/<path>" line of a file block
GitHeader(path) == DiffGit \o <<" ", "a", "/">> \o path \o <<" ", "b", "/">> \o path
\* a file-boundary line whose rest has no a/... b/... pair
BadGitHeader == DiffGit \o <<" ", "x">>
HunkHeaderFull == <<"@","@"," ","-","1","0",",","5"," ","+","1","2",",","7"," ","@","@">>
HunkHeaderShort == <<"@","@"," ","-","1"," ","+","1"," ","@","@">>
BadHunkHeader == <<"@", "@", " ", "-", "x">>
AddedLine == <<"+", "x">>
RemovedLine == <<"-", "y">>
ContextLine == <<" ", "z">>
EmptyLine == <<>>
NoNewlineLine == <<"\\", " ", "N", "o">>
BinaryLine == <<"B", "i", "n", "a", "r", "y">>

\* the diff texts git hands to the engine runs
EngineDiffs ==
  { <<>>,
    <<GitHeader(PathA), HunkHeaderFull, AddedLine, EmptyLine>>,
    <<GitHeader(PathA), HunkHeaderFull, AddedLine,
      GitHeader(PathB), HunkHeaderShort, RemovedLine, ContextLine, EmptyLine>>,
    <<GitHeader(PathDist), HunkHeaderFull, AddedLine, EmptyLine>>,
    <<GitHeader(PathImage), BinaryLine, GitHeader(PathB), HunkHeaderShort, AddedLine>> }

\* the lines the diff texts of SpecDiff are made of
DiffAlphabet ==
  { GitHeader(PathA), GitHeader(PathB), BadGitHeader, HunkHeaderFull, HunkHeaderShort,
    BadHunkHeader, AddedLine, RemovedLine, ContextLine, EmptyLine, NoNewlineLine }

DiffTexts == SeqsUpTo(DiffAlphabet, MaxDiffLines)

\* the user's configuration: every combination of the three fields that steer
\* the aggregator, and three more that vary the provider and the ignore list
UserConfig(provider, ignore, threshold, auto, blocking) ==
  [aiProvider |-> provider, ignorePatterns |-> ignore, severityThreshold |-> threshold,
   autoApprove |-> auto, requireApprovalFor |-> blocking]

UserConfigs ==
  { UserConfig(Some("openai"), None, t, a, r) :
      t \in {None, Some("low"), Some("medium"), Some("high")},
      a \in {None, Some(TRUE)},
      r \in {None, Some(<<"error">>), Some(<<"warning", "error">>)} }
  \cup { UserConfig(Some("anthropic"), None, None, None, None),
         UserConfig(Some("gemini"), None, None, None, None),
         UserConfig(None, Some(<< <<"*", ".", "m", "d">> >>), None, None, None) }

\* the environment variables that hold a non-empty value
Environments == SUBSET {"OPENAI_API_KEY", "ANTHROPIC_API_KEY"}

\* the elements a provider's response array is made of
ResponseItems ==
  { ObjectItem(Comment(PathOther, Number(10), "unsafe query", "error", "security", "")),
    ObjectItem(Comment(<<>>, Number(3), "use const", "warning", "style", "const x")),
    ObjectItem(Comment(PathOther, Number(0), "add a test", "info", "testing", "")),
    ObjectItem(Comment(<<>>, Number(5), "", "error", "security", "")),
    ObjectItem(Comment(<<>>, Undefined, "too slow", "critical", "performance", "")),
    ObjectItem(Comment(PathOther, Number(7), "wrong", "error", "bug", "")),
    NullItem }

\* what one provider.review call does: it throws, or resolves to a non-array
\* value, or to an array
ProviderResponses ==
  { [kind |-> "throw", items |-> <<>>], [kind |-> "nonArray", items |-> <<>>] }
  \cup { [kind |-> "array", items |-> items] : items \in SeqsUpTo(ResponseItems, MaxResp) }

\* the validated comments the lists of SpecScore are made of
ScoreComments ==
  { Comment(PathA, Number(1), "m", "error", "security", ""),
    Comment(PathA, Number(2), "m", "warning", "style", ""),
    Comment(PathA, Number(3), "m", "info", "testing", "") }

\* the paths handed to the file filter in SpecFilter
FilterPaths ==
  { PathA, PathB, PathDist, PathImage,
    <<"s","r","c","/","a",".","T","S">>,
    <<"x",".","m","i","n",".","j","s">>,
    <<"s","r","c","/","x",".","m","i","n",".","j","s">>,
    <<".","e","n","v",".","l","o","c","a","l">>,
    <<"M","a","k","e","f","i","l","e">>,
    <<".","g","i","t","i","g","n","o","r","e">>,
    <<"s","r","c","/","n","o","d","e","_","m","o","d","u","l","e","s","/","x",".","j","s">> }

\* the glob patterns a user's ignore and include lists are made of
UserPatterns ==
  { <<"*",".","m","d">>, <<"s","r","c","/","*","*">>, <<"*","*","/","*",".","j","s">>,
    PathA, PathB, PathImage }

UserIgnoreLists == SeqsUpTo(UserPatterns, MaxPatterns)

UserIncludeLists == SeqsUpTo(UserPatterns, 1)

\* the decimal digits of a natural number
RECURSIVE DigitsOf(_)
DigitsOf(n) == IF n < 10 THEN <<Digits[n + 1]>> ELSE DigitsOf(n \div 10) \o <<Digits[(n % 10) + 1]>>

\* a text between double quotes, its quotes, backslashes and newlines escaped
RECURSIVE Escaped(_)
Escaped(chars) ==
  IF chars = <<>> THEN <<>>
  ELSE (IF chars[1] \in {"\"", "\\"} THEN <<"\\", chars[1]>>
        ELSE IF chars[1] = "\n" THEN <<"\\", "n">>
        ELSE <<chars[1]>>) \o Escaped(Tail(chars))

Quoted(chars) == <<"\"">> \o Escaped(chars) \o <<"\"">>

\* the keys of a comment object in the order the review prompt lists them
KeyOrder == <<KeyFile, KeyLine, KeyMessage, KeySeverity, KeyCategory, KeySuggestion>>

\* the JSON text of a value as a provider writes it: the members of an object
\* in prompt order, the elements of an array one per line
RECURSIVE Render(_), RenderItems(_, _), RenderMembers(_, _)
Render(v) ==
  IF v.t = "string" THEN Quoted(v.s)
  ELSE IF v.t = "number" THEN (IF v.n < 0 THEN <<"-">> \o DigitsOf(0 - v.n) ELSE DigitsOf(v.n))
  ELSE IF v.t = "boolean" THEN (IF v.b THEN <<"t","r","u","e">> ELSE <<"f","a","l","s","e">>)
  ELSE IF v.t = "array" THEN <<"[">> \o RenderItems(v.items, 1) \o <<"]">>
  ELSE IF v.t = "object"
       THEN <<"{">> \o RenderMembers(v.fields, SelectSeq(KeyOrder, LAMBDA k : k \in DOMAIN v.fields))
                 \o <<"}">>
  ELSE <<"n","u","l","l">>

RenderItems(items, k) ==
  IF k > Len(items) THEN <<>>
  ELSE Render(items[k]) \o (IF k < Len(items) THEN <<",", "\n", " ">> ELSE <<>>)
       \o RenderItems(items, k + 1)

RenderMembers(fields, keys) ==
  IF keys = <<>> THEN <<>>
  ELSE Quoted(keys[1]) \o <<":", " ">> \o Render(fields[keys[1]])
       \o (IF Len(keys) > 1 THEN <<",", " ">> ELSE <<>>)
       \o RenderMembers(fields, Tail(keys))

\* two comment objects as the review prompt asks for them
CommentObjectA ==
  JObj(Set(Set(Set(Set(Set(Set(<<>>, KeyFile, JStr(PathA)), KeyLine, JNum(10)),
       KeyMessage, JStr(<<"s","a","y"," ","\"","h","i","\"">>)), KeySeverity, JStr(SeverityError)),
       KeyCategory, JStr(<<"s","e","c","u","r","i","t","y">>)),
       KeySuggestion, JStr(<<"a","\n","b">>)))

CommentObjectB ==
  JObj(Set(Set(Set(Set(Set(<<>>, KeyFile, JStr(PathB)), KeyLine, JNum(0)),
       KeyMessage, JStr(<<"m">>)), KeySeverity, JStr(SeverityInfo)),
       KeyCategory, JStr(<<"s","t","y","l","e">>)))

\* the well-formed comment arrays a provider answers with
CommentArrays ==
  { JArr(<<>>), JArr(<<CommentObjectA>>), JArr(<<CommentObjectA, CommentObjectB>>) }

\* a text in a fenced code block
Fenced(text) == FenceOpen \o text \o FenceClose

\* answers in the line format the scanner reads
ScannerComment ==
  <<"F","i","l","e",":"," ","a",".","t","s","\n",
    "S","e","v","e","r","i","t","y",":"," ","H","i","g","h","\n",
    "L","i","n","e",":"," ","7","\n",
    "M","e","s","s","a","g","e",":"," ","m">>

\* the pieces the response texts of SpecNormalizer are put together from
ResponsePieces ==
  { FenceOpen, FenceClose, <<"\n">>,
    <<"H","e","r","e",":"," ">>,
    ScannerComment,
    <<"[", "{">>,
    <<"n","u","l","l">>,
    Render(CommentObjectB) }
  \cup { Render(a) : a \in CommentArrays }

RECURSIVE Concat(_)
Concat(pieces) == IF pieces = <<>> THEN <<>> ELSE pieces[1] \o Concat(Tail(pieces))

ResponseTexts == { Concat(pieces) : pieces \in SeqsUpTo(ResponsePieces, MaxPieces) }

\* the lines the response texts of SpecScanner are made of
ScannerLines ==
  { <<"F","i","l","e",":"," ","a",".","t","s">>,
    <<"F","i","l","e",":"," ","b",".","m","d"," ">>,
    <<"F","i","l","e",":"," ">>,
    <<"M","e","s","s","a","g","e",":"," ","m">>,
    <<"M","e","s","s","a","g","e",":">>,
    <<"L","i","n","e",":"," ","7">>,
    <<"S","e","v","e","r","i","t","y",":"," ","H","i","g","h">>,
    <<"n","o","t","e">> }

\* lines.join("\n")
RECURSIVE Join(_)
Join(lines) ==
  IF lines = <<>> THEN <<>>
  ELSE IF Len(lines) = 1 THEN lines[1]
  ELSE lines[1] \o <<"\n">> \o Join(Tail(lines))

ScannerTexts == { Join(lines) : lines \in SeqsUpTo(ScannerLines, MaxScanLines) }

\* what the command line may be: the review command with or without
\* --no-github (options.github is true unless --no-github is given), or the
\* github-action command
CommandLines ==
  { [command |-> "review", options |-> [github |-> g]] : g \in BOOLEAN }
  \cup { [command |-> "github-action", options |-> [github |-> TRUE]] }

\* the environment: is GITHUB_TOKEN non-empty, and what GITHUB_PR_URL or
\* CI_PULL_REQUEST holds: nothing, the URL of a pull request, the URL of a
\* repository, or a text that is no GitHub URL
CliEnvironments ==
  [GITHUB_TOKEN : BOOLEAN, prUrl : {"unset", "pull", "repository", "other"}]

\* the results reviewChanges hands to a command
CliResults ==
  { createEmptyResult("No reviewable changes found") }
  \cup { buildResult(mergeWithDefaults(UserConfig(None, None, None, None, None)), comments) :
           comments \in SeqsUpTo(ScoreComments, 1) }

(***************************************************************************)
(* State.                                                                  *)
(***************************************************************************)
VARIABLES
  configSource,       \* "loader": ConfigLoader.load made the config; "direct": the caller
  config,             \* ReviewEngine.config
  pc,                 \* where the run stands
  diff,               \* the diff text git returned
  changes,            \* parseDiff's result
  reviewableChanges,  \* the changes that pass the file filter
  provider,           \* "none" until ProviderFactory.create ran, then "created" or its error
  calls,              \* the provider.review calls issued so far: file and outcome
  response,           \* what the latest provider.review call did, once it settled
  allComments,        \* the accumulating comment list
  result,             \* the ReviewResult returned, None before
  fileFilter,         \* the FileFilter: its ignore and include pattern lists
  filePath,           \* the path handed to FileFilter.shouldReview
  verdict,            \* what shouldReview returned, None before
  responseText,       \* the raw text a provider's API returned for one file
  parsed,             \* how parseReviewResponse ended on it, None before
  command,            \* the ai-review command that runs, "" when none does
  options,            \* the command's parsed options
  env,                \* process.env as far as the command reads it
  githubCalls,        \* the GitHub API calls made so far: method and outcome
  exitCode            \* the code process.exit was called with, None before

\* the file filter's part of the state
filterVars == <<fileFilter, filePath, verdict>>

\* the response normalizer's part of the state
normalizerVars == <<responseText, parsed>>

\* the command line's part of the state
cliVars == <<command, options, env, githubCalls, exitCode>>

vars == <<configSource, config, pc, diff, changes, reviewableChanges, provider, calls,
          response, allComments, result, filterVars, normalizerVars, cliVars>>

NoResponse == [kind |-> "none", items |-> <<>>]

Call(file, outcome) == [file |-> file, outcome |-> outcome]

(***************************************************************************)
(* Spec: one run of ReviewEngine.reviewChanges.                            *)
(***************************************************************************)
\* this.fileFilter = new FileFilter(config.ignorePatterns)
EngineFileFilter(cfg) ==
  FileFilter(IF cfg.ignorePatterns # None THEN cfg.ignorePatterns[1] ELSE <<>>, <<>>)

\* no shouldReview call is in progress
FilterIdle == filePath = <<>> /\ verdict = None

\* no parseReviewResponse call is in progress
NormalizerIdle == responseText = <<>> /\ parsed = None

\* no command runs
CliIdle ==
  /\ command = ""
  /\ options = [github |-> TRUE]
  /\ env = [GITHUB_TOKEN |-> FALSE, prUrl |-> "unset"]
  /\ githubCalls = <<>>
  /\ exitCode = None

Init ==
  /\ configSource \in {"loader", "direct"}
  /\ \E user \in UserConfigs :
       config = IF configSource = "loader" THEN mergeWithDefaults(user) ELSE user
  /\ pc = "start"
  /\ diff = <<>>
  /\ changes = <<>>
  /\ reviewableChanges = <<>>
  /\ provider = "none"
  /\ calls = <<>>
  /\ response = NoResponse
  /\ allComments = <<>>
  /\ result = None
  /\ fileFilter = EngineFileFilter(config)
  /\ FilterIdle
  /\ NormalizerIdle
  /\ CliIdle

\* what diff holds when git.diff rejected instead of returning a text
GitError == << <<"git error">> >>

GetChangesFailsEmptyResult ==
  /\ pc = "start"
  /\ diff' = GitError
  /\ pc' = "returned"
  /\ result' = Some(createEmptyResult("No reviewable changes found"))
  /\ UNCHANGED <<configSource, config, changes, reviewableChanges, provider,
                 calls, response, allComments, filterVars, normalizerVars, cliVars>>

\* git.diff rejects (bad refs, no repository): getChanges rethrows and so does
\* reviewChanges
GetChangesFails ==
  /\ pc = "start"
  /\ diff' = GitError
  /\ pc' = "raised"
  /\ UNCHANGED <<configSource, config, changes, reviewableChanges, provider,
                 calls, response, allComments, result>>
  /\ UNCHANGED filterVars
  /\ UNCHANGED normalizerVars
  /\ UNCHANGED cliVars

\* git.diff resolves: the diff is parsed and filtered; with nothing to review
\* the empty result is returned, else the standards and prompt loads start
GetChangesReturns ==
  /\ pc = "start"
  /\ \E d \in EngineDiffs :
       /\ diff' = d
       /\ changes' = parseDiff(d)
       /\ reviewableChanges' = filterReviewableChanges(config, parseDiff(d))
  /\ IF Len(reviewableChanges') = 0
     THEN /\ result' = Some(createEmptyResult("No reviewable changes found"))
          /\ pc' = "returned"
     ELSE /\ result' = result
          /\ pc' = "loading"
  /\ UNCHANGED <<configSource, config, provider, calls, response, allComments>>
  /\ UNCHANGED filterVars
  /\ UNCHANGED normalizerVars
  /\ UNCHANGED cliVars

\* the loads resolve (they never reject); the provider is constructed, which
\* throws without its API key or for an unknown provider name; the first
\* provider.review call is issued
LoadsResolve ==
  /\ pc = "loading"
  /\ \E keys \in Environments :
       IF ProviderCreated(config, keys)
       THEN /\ provider' = "created"
            /\ calls' = <<Call(reviewableChanges[1].file, "pending")>>
            /\ pc' = "reviewing"
       ELSE /\ provider' = ProviderError(config, keys)
            /\ pc' = "raised"
            /\ UNCHANGED calls
  /\ UNCHANGED <<configSource, config, diff, changes, reviewableChanges, response,
                 allComments, result>>
  /\ UNCHANGED filterVars
  /\ UNCHANGED normalizerVars
  /\ UNCHANGED cliVars

\* the pending provider.review call settles: it rejects, or resolves to the
\* value parseReviewResponse returned
ProviderSettles ==
  /\ pc = "reviewing"
  /\ \E r \in ProviderResponses : response' = r
  /\ pc' = "settled"
  /\ UNCHANGED <<configSource, config, diff, changes, reviewableChanges, provider,
                 calls, allComments, result>>
  /\ UNCHANGED filterVars
  /\ UNCHANGED normalizerVars
  /\ UNCHANGED cliVars

ReviewContinuesRetries ==
  /\ pc = "settled"
  /\ LET i      == Len(calls)
         change == reviewableChanges[i]
         failed == response.kind = "throw" \/ ValidationThrows(response)
         done   == [calls EXCEPT ![i].outcome = IF failed THEN "failed" ELSE "ok"]
     IN  /\ allComments' = ReviewOne(config, allComments, change, response)
         /\ IF failed \/ i < Len(reviewableChanges)
            THEN /\ calls' = Append(done, Call(IF failed THEN change.file
                                               ELSE reviewableChanges[i + 1].file, "pending"))
                 /\ response' = NoResponse
                 /\ pc' = "reviewing"
                 /\ result' = result
            ELSE /\ calls' = done
                 /\ response' = response
                 /\ pc' = "returned"
                 /\ result' = Some(buildResult(config, allComments'))
  /\ UNCHANGED <<configSource, config, diff, changes, reviewableChanges, provider,
                 filterVars, normalizerVars, cliVars>>

\* the loop continues after the await: the comments are validated and
\* appended, or the catch block appends the failure comment; then the next
\* call is issued, or after the last file the result is built and returned
ReviewContinues ==
  /\ pc = "settled"
  /\ LET i      == Len(calls)
         change == reviewableChanges[i]
         failed == response.kind = "throw" \/ ValidationThrows(response)
         done   == [calls EXCEPT ![i].outcome = IF failed THEN "failed" ELSE "ok"]
     IN  /\ allComments' = ReviewOne(config, allComments, change, response)
         /\ IF i < Len(reviewableChanges)
            THEN /\ calls' = Append(done, Call(reviewableChanges[i + 1].file, "pending"))
                 /\ response' = NoResponse
                 /\ pc' = "reviewing"
                 /\ result' = result
            ELSE /\ calls' = done
                 /\ response' = response
                 /\ pc' = "returned"
                 /\ result' = Some(buildResult(config, allComments'))
  /\ UNCHANGED <<configSource, config, diff, changes, reviewableChanges, provider>>
  /\ UNCHANGED filterVars
  /\ UNCHANGED normalizerVars
  /\ UNCHANGED cliVars

Next ==
  GetChangesFails \/ GetChangesReturns \/ LoadsResolve \/ ProviderSettles \/ ReviewContinues

Spec == Init /\ [][Next]_vars

(***************************************************************************)
(* SpecScore: buildResult on every validated comment list of at most       *)
(* MaxErrors error comments and MaxOther others, in any order, under the   *)
(* loader's default configuration.                                         *)
(***************************************************************************)
InitScore ==
  /\ configSource = "loader"
  /\ config = mergeWithDefaults(UserConfig(None, None, None, None, None))
  /\ pc = "aggregate"
  /\ diff = <<>>
  /\ changes = <<>>
  /\ reviewableChanges = <<>>
  /\ provider = "none"
  /\ calls = <<>>
  /\ response = NoResponse
  /\ allComments = <<>>
  /\ result = Some(buildResult(config, <<>>))
  /\ fileFilter = EngineFileFilter(config)
  /\ FilterIdle
  /\ NormalizerIdle
  /\ CliIdle

\* the list grows by one comment and is aggregated again
AddComment ==
  /\ pc = "aggregate"
  /\ \E c \in ScoreComments :
       /\ IF c.severity = "error"
          THEN CountSeverity(allComments, "error") < MaxErrors
          ELSE Len(allComments) - CountSeverity(allComments, "error") < MaxOther
       /\ allComments' = Append(allComments, c)
  /\ result' = Some(buildResult(config, allComments'))
  /\ UNCHANGED <<configSource, config, pc, diff, changes, reviewableChanges, provider,
                 calls, response>>
  /\ UNCHANGED filterVars
  /\ UNCHANGED normalizerVars
  /\ UNCHANGED cliVars

NextScore == AddComment

SpecScore == InitScore /\ [][NextScore]_vars

(***************************************************************************)
(* SpecDiff: parseDiff on every diff text of up to MaxDiffLines lines.     *)
(***************************************************************************)
InitDiff ==
  /\ configSource = "direct"
  /\ config = UserConfig(None, None, None, None, None)
  /\ pc = "parse"
  /\ diff \in DiffTexts
  /\ changes = <<>>
  /\ reviewableChanges = <<>>
  /\ provider = "none"
  /\ calls = <<>>
  /\ response = NoResponse
  /\ allComments = <<>>
  /\ result = None
  /\ fileFilter = EngineFileFilter(config)
  /\ FilterIdle
  /\ NormalizerIdle
  /\ CliIdle

Parse ==
  /\ pc = "parse"
  /\ changes' = parseDiff(diff)
  /\ pc' = "parsed"
  /\ UNCHANGED <<configSource, config, diff, reviewableChanges, provider, calls,
                 response, allComments, result>>
  /\ UNCHANGED filterVars
  /\ UNCHANGED normalizerVars
  /\ UNCHANGED cliVars

NextDiff == Parse

SpecDiff == InitDiff /\ [][NextDiff]_vars

(***************************************************************************)
(* SpecFilter: FileFilter.shouldReview on every filter built from up to    *)
(* MaxPatterns user ignore patterns and at most one include pattern, for    *)
(* every path of FilterPaths.                                              *)
(***************************************************************************)
InitFilter ==
  /\ configSource = "direct"
  /\ config = UserConfig(None, None, None, None, None)
  /\ pc = "filter"
  /\ diff = <<>>
  /\ changes = <<>>
  /\ reviewableChanges = <<>>
  /\ provider = "none"
  /\ calls = <<>>
  /\ response = NoResponse
  /\ allComments = <<>>
  /\ result = None
  /\ \E ignore \in UserIgnoreLists, include \in UserIncludeLists :
       fileFilter = FileFilter(ignore, include)
  /\ filePath \in FilterPaths
  /\ verdict = None
  /\ NormalizerIdle
  /\ CliIdle

ShouldReview ==
  /\ pc = "filter"
  /\ verdict' = Some(shouldReview(fileFilter, filePath))
  /\ pc' = "filtered"
  /\ UNCHANGED <<configSource, config, diff, changes, reviewableChanges, provider, calls,
                 response, allComments, result, fileFilter, filePath>>
  /\ UNCHANGED normalizerVars
  /\ UNCHANGED cliVars

NextFilter == ShouldReview

SpecFilter == InitFilter /\ [][NextFilter]_vars

(***************************************************************************)
(* SpecNormalizer: BaseAIProvider.parseReviewResponse on every response    *)
(* text put together from up to MaxPieces pieces.                          *)
(***************************************************************************)
\* the engine's part of the state, and the engine at rest
engineVars == <<configSource, config, diff, changes, reviewableChanges, provider, calls,
                response, allComments, result>>

EngineIdle ==
  /\ configSource = "direct"
  /\ config = UserConfig(None, None, None, None, None)
  /\ diff = <<>>
  /\ changes = <<>>
  /\ reviewableChanges = <<>>
  /\ provider = "none"
  /\ calls = <<>>
  /\ response = NoResponse
  /\ allComments = <<>>
  /\ result = None
  /\ fileFilter = EngineFileFilter(config)

InitNormalizer ==
  /\ EngineIdle
  /\ FilterIdle
  /\ pc = "normalize"
  /\ responseText \in ResponseTexts
  /\ parsed = None
  /\ CliIdle

ParseReviewResponse ==
  /\ pc = "normalize"
  /\ parsed' = Some(parseReviewResponse(responseText))
  /\ pc' = "normalized"
  /\ UNCHANGED <<engineVars, filterVars, responseText>>
  /\ UNCHANGED cliVars

NextNormalizer == ParseReviewResponse

SpecNormalizer == InitNormalizer /\ [][NextNormalizer]_vars

(***************************************************************************)
(* SpecScanner: BaseAIProvider.parseTextResponse on every text of up to    *)
(* MaxScanLines lines in the line format.                                  *)
(***************************************************************************)
InitScanner ==
  /\ EngineIdle
  /\ FilterIdle
  /\ pc = "scan"
  /\ responseText \in ScannerTexts
  /\ parsed = None
  /\ CliIdle

ParseTextResponse ==
  /\ pc = "scan"
  /\ parsed' = Some(Returns(parseTextResponse(responseText)))
  /\ pc' = "scanned"
  /\ UNCHANGED <<engineVars, filterVars, responseText, cliVars>>

NextScanner == ParseTextResponse

SpecScanner == InitScanner /\ [][NextScanner]_vars

(***************************************************************************)
(* SpecCli: one run of the review command or of the github-action command. *)
(* reviewChanges is one step that returns a result or raises; a GitHub API *)
(* call succeeds or fails.                                                 *)
(***************************************************************************)
\* getGitHubPRInfo: owner, repository and pull number are found only in the
\* URL of a pull request
getGitHubPRInfo(environment) == environment.prUrl = "pull"

\* the requests of the GitHubClient methods, with the argument that depends
\* on the result: the status state or the review event
Request(api, arg) == [api |-> api, arg |-> arg]
getPRInfo == Request("getPRInfo", "")
addReviewComments(comments) == Request("addReviewComments", "COMMENT")
approveOrRequestChanges(approved) ==
  Request("approveOrRequestChanges", IF approved THEN "APPROVE" ELSE "REQUEST_CHANGES")
addStatusCheck(state) == Request("addStatusCheck", state)

GitHubCall(request, ok) == [api |-> request.api, arg |-> request.arg, ok |-> ok]

\* the calls made of the planned ones when the failAt-th fails (0: none fails)
Attempted(planned, failAt) ==
  [k \in 1..(IF failAt = 0 THEN Len(planned) ELSE failAt) |->
     GitHubCall(planned[k], k # failAt)]

\* postToGitHub: the pull request is read, the comments are added when there
\* are some, the review is approved or changes are requested
postToGitHub(r) ==
  <<getPRInfo>>
  \o (IF Len(r.comments) > 0 THEN <<addReviewComments(r.comments)>> ELSE <<>>)
  \o <<approveOrRequestChanges(r.approved)>>

\* actionPosts with the status check reporting success whatever the result
actionPostsAlwaysSuccess(r) ==
  <<addStatusCheck("success")>>
  \o (IF Len(r.comments) > 0 THEN <<addReviewComments(r.comments)>> ELSE <<>>)
  \o <<approveOrRequestChanges(r.approved)>>

\* the GitHub calls of the github-action command after the review
actionPosts(r) ==
  <<addStatusCheck(IF r.approved THEN "success" ELSE "failure")>>
  \o (IF Len(r.comments) > 0 THEN <<addReviewComments(r.comments)>> ELSE <<>>)
  \o <<approveOrRequestChanges(r.approved)>>

\* process.exit(result.approved ? 0 : 1)
reviewExitCode(r) == IF r.approved THEN 0 ELSE 1

InitCli ==
  /\ configSource = "loader"
  /\ config = mergeWithDefaults(UserConfig(None, None, None, None, None))
  /\ pc = "command"
  /\ diff = <<>>
  /\ changes = <<>>
  /\ reviewableChanges = <<>>
  /\ provider = "none"
  /\ calls = <<>>
  /\ response = NoResponse
  /\ allComments = <<>>
  /\ result = None
  /\ fileFilter = EngineFileFilter(config)
  /\ FilterIdle
  /\ NormalizerIdle
  /\ \E line \in CommandLines : command = line.command /\ options = line.options
  /\ env \in CliEnvironments
  /\ githubCalls = <<>>
  /\ exitCode = None

\* review: the configuration is loaded and reviewChanges runs; it returns a
\* result, which is printed, or something raises and the command exits with 1
ReviewCommand ==
  /\ pc = "command"
  /\ command = "review"
  /\ \/ /\ \E r \in CliResults : result' = Some(r)
        /\ pc' = "reviewed"
        /\ exitCode' = exitCode
     \/ /\ result' = result
        /\ pc' = "exited"
        /\ exitCode' = Some(1)
  /\ UNCHANGED <<configSource, config, diff, changes, reviewableChanges, provider, calls,
                 response, allComments, filterVars, normalizerVars, command, options, env,
                 githubCalls>>

\* review, after the result is printed: the GitHub guard, then process.exit;
\* postToGitHub catches a failing GitHub call
ReviewCommandFinishes ==
  /\ pc = "reviewed"
  /\ command = "review"
  /\ IF ~options.github /\ env.GITHUB_TOKEN /\ getGitHubPRInfo(env)
     THEN \E failAt \in 0..Len(postToGitHub(result[1])) :
            githubCalls' = Attempted(postToGitHub(result[1]), failAt)
     ELSE githubCalls' = githubCalls
  /\ exitCode' = Some(reviewExitCode(result[1]))
  /\ pc' = "exited"
  /\ UNCHANGED <<engineVars, filterVars, normalizerVars, command, options, env>>

\* github-action: GITHUB_TOKEN is required, the pull request is read, then
\* reviewChanges runs; whatever raises ends the command with 1
GithubActionCommand ==
  /\ pc = "command"
  /\ command = "github-action"
  /\ IF ~env.GITHUB_TOKEN
     THEN /\ exitCode' = Some(1)
          /\ pc' = "exited"
          /\ UNCHANGED <<githubCalls, result>>
     ELSE \/ /\ githubCalls' = <<GitHubCall(getPRInfo, FALSE)>>
             /\ exitCode' = Some(1)
             /\ pc' = "exited"
             /\ result' = result
          \/ /\ githubCalls' = <<GitHubCall(getPRInfo, TRUE)>>
             /\ \/ /\ \E r \in CliResults : result' = Some(r)
                   /\ pc' = "reviewed"
                   /\ exitCode' = exitCode
                \/ /\ result' = result
                   /\ pc' = "exited"
                   /\ exitCode' = Some(1)
  /\ UNCHANGED <<configSource, config, diff, changes, reviewableChanges, provider, calls,
                 response, allComments, filterVars, normalizerVars, command, options, env>>

\* github-action, after the review: the status check, the comments, the
\* approval; then process.exit(0), or process.exit(1) when a call failed
GithubActionFinishes ==
  /\ pc = "reviewed"
  /\ command = "github-action"
  /\ \E failAt \in 0..Len(actionPosts(result[1])) :
       /\ githubCalls' = githubCalls \o Attempted(actionPosts(result[1]), failAt)
       /\ exitCode' = Some(IF failAt = 0 THEN 0 ELSE 1)
  /\ pc' = "exited"
  /\ UNCHANGED <<engineVars, filterVars, normalizerVars, command, options, env>>

NextCli ==
  ReviewCommand \/ ReviewCommandFinishes \/ GithubActionCommand \/ GithubActionFinishes

SpecCli == InitCli /\ [][NextCli]_vars

(***************************************************************************)
(* Properties of the review run.                                           *)
(***************************************************************************)
\* the file whose provider.review call is pending or has just settled
CurrentChange == reviewableChanges[Len(calls)]

\* the catch block's comment, field by field
IsFailureComment(c, path) ==
  /\ c.file = path
  /\ c.line = Number(1)
  /\ c.severity = "warning"
  /\ c.category = "code-quality"

\* what a response that makes neither the provider nor the validation throw
\* leaves in the list: its elements that are well formed and reach the
\* threshold, in their order, a missing file replaced by the change's path
Contribution(cfg, items, path) ==
  LET rank == [info |-> 1, warning |-> 2, error |-> 3]
      need == IF cfg.severityThreshold = None THEN 1
              ELSE [low |-> 1, medium |-> 2, high |-> 3][cfg.severityThreshold[1]]
      keep == SelectSeq(items, LAMBDA it :
                /\ it.v.message # ""
                /\ it.v.severity \in Severities
                /\ it.v.category \in Categories
                /\ rank[it.v.severity] >= need)
  IN  [k \in 1..Len(keep) |->
         IF keep[k].v.file = <<>> THEN [keep[k].v EXCEPT !.file = path]
         ELSE keep[k].v]

\* C1: a per-file provider failure never makes reviewChanges raise: the
\* continuation of a settled call leaves the comments of the earlier files as
\* they were and appends, for a failed call, exactly one comment (that file,
\* line 1, warning, code-quality) and, for any other call, exactly the
\* comments that file's own response contributes; after the last file a
\* ReviewResult holding the list is returned.
C1_FailureIsolated ==
  [][pc = "settled" =>
       LET n      == Len(allComments)
           suffix == SubSeq(allComments', n + 1, Len(allComments'))
       IN  /\ pc' \in {"reviewing", "returned"}
           /\ Len(allComments') >= n
           /\ SubSeq(allComments', 1, n) = allComments
           /\ IF response.kind = "throw" \/ ValidationThrows(response)
              THEN Len(suffix) = 1 /\ IsFailureComment(suffix[1], CurrentChange.file)
              ELSE suffix = Contribution(config, response.items, CurrentChange.file)
           /\ pc' = "returned" <=> Len(calls) = Len(reviewableChanges)
           /\ pc' = "returned" => result' # None /\ result'[1].comments = allComments'
    ]_vars

\* C1 witness: a run of two files returned a result although the second call
\* failed, and the first file's comments are still in it
C1_Witness ==
  /\ pc = "returned"
  /\ Len(calls) = 2
  /\ calls[1].outcome = "ok"
  /\ calls[2].outcome = "failed"
  /\ result # None
  /\ Len(result[1].comments) >= 2
  /\ result[1].comments[1].file # calls[2].file

ThresholdRank(cfg) == thresholdOrder[cfg.severityThreshold[1]]

\* C2 as stated: with a threshold configured, every comment of the returned
\* result has a severity rank at or above the threshold's rank.
C2_AllAtOrAboveThreshold ==
  (result # None /\ config.severityThreshold # None) =>
    \A k \in 1..Len(result[1].comments) :
      severityOrder[result[1].comments[k].severity] >= ThresholdRank(config)

\* C2 amended: with a threshold configured, every comment of the returned
\* result has a severity rank at or above the threshold's rank, except the
\* failure comments of the files whose review failed, which are warnings
\* whatever the threshold is.
C2_ProviderCommentsAtOrAboveThreshold ==
  (result # None /\ config.severityThreshold # None) =>
    \A k \in 1..Len(result[1].comments) :
      LET c == result[1].comments[k]
      IN  \/ severityOrder[c.severity] >= ThresholdRank(config)
          \/ \E j \in 1..Len(calls) :
               calls[j].outcome = "failed" /\ c = FailureComment(calls[j].file)

\* C2 witness: under threshold "high" the provider returned an error and a
\* warning for the only file, and the result holds just the error
C2_Witness ==
  /\ pc = "returned"
  /\ config.severityThreshold = Some("high")
  /\ Len(calls) = 1
  /\ response.kind = "array"
  /\ \E i, j \in 1..Len(response.items) :
       /\ response.items[i].kind = "object" /\ response.items[j].kind = "object"
       /\ isValidComment(response.items[i].v) /\ response.items[i].v.severity = "warning"
       /\ isValidComment(response.items[j].v) /\ response.items[j].v.severity = "error"
  /\ Len(result[1].comments) = 1
  /\ result[1].comments[1].severity = "error"

\* the user's ignore patterns as the engine hands them to the file filter
EngineFilter == FileFilter(IF config.ignorePatterns # None
                           THEN config.ignorePatterns[1] ELSE <<>>, <<>>)

NoneReviewable == \A k \in 1..Len(changes) : ~shouldReview(EngineFilter, changes[k].file)

\* the result createEmptyResult is to build, field by field
IsEmptyResult(r) ==
  /\ r.comments = <<>>
  /\ r.score = 100
  /\ r.approved = TRUE
  /\ DOMAIN r.categories = Categories
  /\ \A c \in Categories : r.categories[c] = 0
  /\ r.summary = SummaryText("No reviewable changes found", <<>>, <<>>)

\* C3: when git returns a diff none of whose files passes the file filter, the
\* run returns at once: no comments, score 100, approved, the seven category
\* counts all 0, the summary "No reviewable changes found"; the provider has
\* been neither created nor called, and nothing happens after the return.
C3_EmptyShortCircuit ==
  [][/\ (pc = "start" /\ pc' # "raised" /\ NoneReviewable') =>
          /\ pc' = "returned"
          /\ result' # None
          /\ IsEmptyResult(result'[1])
          /\ provider' = "none"
          /\ calls' = <<>>
     /\ pc = "returned" => FALSE
    ]_vars

\* C3 witness: the diff had a file, the filter rejected it, the run returned
C3_Witness ==
  /\ pc = "returned"
  /\ Len(changes) > 0
  /\ reviewableChanges = <<>>
  /\ result # None

\* C4: with requireApprovalFor configured, the result is approved if it has
\* no comments and autoApprove is on, and otherwise exactly when none of its
\* comments has a severity listed in requireApprovalFor.
C4_ApprovalRule ==
  (result # None /\ config.requireApprovalFor # None) =>
    LET comments == result[1].comments
        auto     == config.autoApprove # None /\ config.autoApprove[1]
        blocking == {k \in 1..Len(comments) :
                       \E j \in 1..Len(config.requireApprovalFor[1]) :
                         config.requireApprovalFor[1][j] = comments[k].severity}
    IN  result[1].approved = (IF comments = <<>> /\ auto THEN TRUE ELSE blocking = {})

\* C4 witness: requireApprovalFor = ["error"], a warning and an error in the
\* result, and the result is not approved
C4_Witness ==
  /\ pc = "returned"
  /\ config.requireApprovalFor = Some(<<"error">>)
  /\ result # None
  /\ \E k \in 1..Len(result[1].comments) : result[1].comments[k].severity = "warning"
  /\ \E k \in 1..Len(result[1].comments) : result[1].comments[k].severity = "error"
  /\ result[1].approved = FALSE

\* C5: when the ReviewConfig does not set requireApprovalFor, a result that
\* holds an error comment is not approved.
C5_DefaultBlocksErrors ==
  (result # None /\ config.requireApprovalFor = None) =>
    ((\E k \in 1..Len(result[1].comments) : result[1].comments[k].severity = "error")
       => result[1].approved = FALSE)

\* C16: when getChanges raises, reviewChanges raises: no result is returned
\* then or later, the provider is not created and provider.review is not
\* called.
C16_DiffFailureIsFatal ==
  [][/\ diff' = GitError =>
          /\ pc' = "raised"
          /\ result' = None
          /\ provider' = "none"
          /\ calls' = <<>>
          /\ allComments' = <<>>
     /\ pc = "raised" => FALSE
    ]_vars

\* C16 witness: git.diff rejected and the run ended raised
C16_Witness ==
  /\ pc = "raised"
  /\ diff = GitError
  /\ changes = <<>>
  /\ reviewableChanges = <<>>
  /\ provider = "none"
  /\ calls = <<>>
  /\ result = None

Settled(call) == call.outcome \in {"ok", "failed"}

\* the calls so far are for the first reviewable files, in order, and every
\* call but the last has settled; a returned run has called once per file
CallsInOrder ==
  /\ Len(calls) <= Len(reviewableChanges)
  /\ \A k \in 1..Len(calls) : calls[k].file = reviewableChanges[k].file
  /\ \A k \in 1..(Len(calls) - 1) : Settled(calls[k])
  /\ (pc = "returned" /\ reviewableChanges # <<>>) =>
       /\ Len(calls) = Len(reviewableChanges)
       /\ \A k \in 1..Len(calls) : Settled(calls[k])

\* C17: provider.review is called once per reviewable file, in list order; a
\* call is issued only after the one before has settled, one at a time, and a
\* settled call, failed or not, stays as it is: it is not issued again.
C17_OneCallPerFileInOrder ==
  [][/\ CallsInOrder'
     /\ (Len(calls') > Len(calls) /\ calls # <<>>) =>
          /\ pc = "settled"
          /\ response.kind # "none"
          /\ Len(calls') = Len(calls) + 1
     /\ \A k \in 1..Len(calls) :
          Settled(calls[k]) => (k <= Len(calls') /\ calls'[k] = calls[k])
    ]_vars

\* C17 witness: two files, the first call failed, the second succeeded
C17_Witness ==
  /\ pc = "returned"
  /\ Len(reviewableChanges) = 2
  /\ Len(calls) = 2
  /\ calls[1] = Call(PathA, "failed")
  /\ calls[2] = Call(PathB, "ok")

\* C18: with no severityThreshold set by the user, whether the configuration
\* went through ConfigLoader.load or was handed to the engine as it is, no
\* info comment is in the returned result.
C18_DefaultThresholdMedium ==
  (/\ pc = "returned"
   /\ \/ config.severityThreshold = None
      \/ (configSource = "loader" /\ config.severityThreshold = Some("medium")))
  => \A k \in 1..Len(result[1].comments) : result[1].comments[k].severity # "info"

(***************************************************************************)
(* Properties of the aggregation.                                          *)
(***************************************************************************)
NumberWith(comments, severity) ==
  Cardinality({k \in 1..Len(comments) : comments[k].severity = severity})

\* C6: the score of a result is 100 - 10 E - 5 W - I clamped to 0..100, with
\* E, W and I the numbers of error, warning and info comments of the result;
\* it lies in 0..100 and is 100 for a result without comments.
C6_ScoreFormula ==
  result # None =>
    LET comments == result[1].comments
        raw == 100 - 10 * NumberWith(comments, "error")
                   - 5 * NumberWith(comments, "warning")
                   - NumberWith(comments, "info")
    IN  /\ result[1].score = (IF raw < 0 THEN 0 ELSE IF raw > 100 THEN 100 ELSE raw)
        /\ result[1].score \in 0..100
        /\ comments = <<>> => result[1].score = 100

\* C6 witness: eleven errors would take the score below 0, and it is 0
C6_Witness ==
  /\ result # None
  /\ NumberWith(result[1].comments, "error") >= 11
  /\ NumberWith(result[1].comments, "warning") >= 1
  /\ result[1].score = 0

\* C7: adding one comment to a validated list never raises the score; adding
\* an error comment lowers it when it was above 0 and leaves it at 0 when it
\* was 0.
C7_ScoreMonotone ==
  [][(/\ Len(allComments') = Len(allComments) + 1
      /\ SubSeq(allComments', 1, Len(allComments)) = allComments
      /\ result # None /\ result' # None) =>
       LET added == allComments'[Len(allComments')]
           old   == result[1].score
           new   == result'[1].score
       IN  /\ new <= old
           /\ added.severity = "error" =>
                /\ old > 0 => new < old
                /\ old = 0 => new = 0
    ]_vars

\* C7 witness: an error comment was added to a list that already scored 0
C7_Witness ==
  /\ pc = "aggregate"
  /\ Len(allComments) >= 11
  /\ allComments[Len(allComments)].severity = "error"
  /\ calculateScore(SubSeq(allComments, 1, Len(allComments) - 1)) = 0
  /\ result[1].score = 0

WellFormed(c) ==
  /\ c.message # ""
  /\ c.severity \in Severities
  /\ c.category \in Categories

\* the response without its elements that are objects with an empty message,
\* an unknown severity or an unknown category
WithoutMalformed(r) ==
  [r EXCEPT !.items = SelectSeq(@, LAMBDA it : it.kind = "null" \/ WellFormed(it.v))]

\* C8: every comment of a returned result has a non-empty message, one of the
\* three severities and one of the seven categories; and the comment list,
\* hence the score, the category counts and the approval, are what they would
\* be had the provider's response not held its malformed comments at all.
C8_MalformedDropped ==
  [][/\ result' # None =>
          \A k \in 1..Len(result'[1].comments) : WellFormed(result'[1].comments[k])
     /\ pc = "settled" =>
          LET clean == ReviewOne(config, allComments, CurrentChange,
                                 WithoutMalformed(response))
          IN  /\ allComments' = clean
              /\ pc' = "returned" => result'[1] = buildResult(config, clean)
    ]_vars

\* C8 witness: the provider returned a well-formed and a malformed comment for
\* the only file, and the result holds one comment
C8_Witness ==
  /\ pc = "returned"
  /\ Len(calls) = 1
  /\ response.kind = "array"
  /\ Len(response.items) = 2
  /\ \A i \in 1..2 : response.items[i].kind = "object"
  /\ \E i, j \in 1..2 : WellFormed(response.items[i].v) /\ ~WellFormed(response.items[j].v)
  /\ Len(result[1].comments) = 1
  /\ result[1].score < 100

RECURSIVE SumOver(_, _, _)
SumOver(f, keys, k) == IF k > Len(keys) THEN 0 ELSE f[keys[k]] + SumOver(f, keys, k + 1)

\* C9: the categories of a result have exactly the seven known keys, each
\* count is the number of the result's comments of that category, and the
\* counts add up to the number of comments.
C9_CategoryCounts ==
  result # None =>
    LET comments == result[1].comments
        counts   == result[1].categories
    IN  /\ DOMAIN counts = Categories
        /\ \A c \in Categories :
             counts[c] = Cardinality({k \in 1..Len(comments) : comments[k].category = c})
        /\ SumOver(counts, CategoryOrder, 1) = Len(comments)

\* C9 witness: a result whose comments fall into two categories
C9_Witness ==
  /\ pc = "returned"
  /\ result # None
  /\ Len(result[1].comments) = 3
  /\ result[1].categories["security"] = 2
  /\ result[1].categories["code-quality"] = 1
  /\ result[1].categories["style"] = 0

(***************************************************************************)
(* Properties of the diff parser.                                          *)
(***************************************************************************)
IsHunkLine(line) == StartsWith(line, <<"@", "@">>)

\* every line that starts with "@@" is a hunk header the parser accepts
AllHunkHeadersValid(text) ==
  \A i \in 1..Len(text) : IsHunkLine(text[i]) => hunkMatch(text[i])

\* the file blocks of a diff text: for each line that starts with
\* "diff --git", the rest of that line and the lines up to the next such line
BlockStarts(text) ==
  {i \in 1..Len(text) : Len(text[i]) >= 10 /\ SubSeq(text[i], 1, 10) = DiffGit}

BlocksOf(text) ==
  LET starts == BlockStarts(text)
      ordered == SelectSeq([i \in 1..Len(text) |-> i], LAMBDA i : i \in starts)
  IN  [k \in 1..Len(ordered) |->
         [header |-> SubSeq(text[ordered[k]], 11, Len(text[ordered[k]])),
          body   |-> SubSeq(text, ordered[k] + 1,
                            IF k < Len(ordered) THEN ordered[k + 1] - 1 ELSE Len(text))]]

HunkHeadersOf(block) == SelectSeq(block.body, IsHunkLine)

\* C10: for a diff text whose "@@" lines are all valid hunk headers, parseDiff
\* returns, in diff order, one CodeChange for each file block whose header has
\* the a/<path> b/<path> form and that holds a hunk header, named by the b/
\* path; the CodeChange has one hunk for each hunk header of the block, in
\* order, with that header's numbers; no other block is in the result.
C10_OneChangePerFileBlock ==
  (pc = "parsed" /\ AllHunkHeadersValid(diff)) =>
    LET kept == SelectSeq(BlocksOf(diff), LAMBDA b :
                  fileMatch(b.header) /\ Len(HunkHeadersOf(b)) >= 1)
    IN  /\ Len(changes) = Len(kept)
        /\ \A j \in 1..Len(kept) :
             LET headers == HunkHeadersOf(kept[j])
             IN  /\ changes[j].file = filePathOf(kept[j].header)
                 /\ Len(changes[j].hunks) = Len(headers)
                 /\ \A h \in 1..Len(headers) :
                      [changes[j].hunks[h] EXCEPT !.lines = <<>>] = NewHunk(headers[h])

\* C10 witness: two file blocks with one hunk each gave two changes, in order
C10_Witness ==
  /\ pc = "parsed"
  /\ AllHunkHeadersValid(diff)
  /\ Len(changes) = 2
  /\ changes[1].file = PathA
  /\ changes[2].file = PathB
  /\ changes[1].hunks[1].oldLines = 5
  /\ changes[2].hunks[1].oldLines = 1

(***************************************************************************)
(* Properties of the file filter.                                          *)
(***************************************************************************)
\* the user-supplied ignore patterns of the filter: those after the defaults
UserIgnoreOf(ff) ==
  SubSeq(ff.ignorePatterns, Len(getDefaultIgnorePatterns) + 1, Len(ff.ignorePatterns))

MatchesSome(path, patterns) == \E k \in 1..Len(patterns) : Minimatch(path, patterns[k])

\* the list without its k-th element
Without(list, k) == SubSeq(list, 1, k - 1) \o SubSeq(list, k + 1, Len(list))

\* C11: shouldReview is false for a path that matches a default or a user
\* ignore pattern, whatever the include list and the extension; otherwise with
\* a non-empty include list it is whether the path matches an include
\* pattern; otherwise it is whether the lower-cased extension is in the
\* allow-list. A path the filter accepts is also accepted by the filter with
\* one user ignore pattern less.
C11_FilterPolicy ==
  pc = "filtered" =>
    LET user    == UserIgnoreOf(fileFilter)
        include == fileFilter.includePatterns
    IN  /\ verdict[1] =
             IF MatchesSome(filePath, getDefaultIgnorePatterns) \/ MatchesSome(filePath, user)
             THEN FALSE
             ELSE IF include # <<>> THEN MatchesSome(filePath, include)
             ELSE ToLowerCase(ExtName(filePath)) \in reviewableExtensions
        /\ verdict[1] =>
             \A k \in 1..Len(user) :
               shouldReview(FileFilter(Without(user, k), include), filePath)

\* C11 witness: a path with a reviewable extension that matches the include
\* pattern and a user ignore pattern is rejected
C11_Witness ==
  /\ pc = "filtered"
  /\ filePath = PathB
  /\ UserIgnoreOf(fileFilter) = << <<"*",".","m","d">> >>
  /\ fileFilter.includePatterns = << PathB >>
  /\ ~MatchesSome(filePath, getDefaultIgnorePatterns)
  /\ verdict = Some(FALSE)

(***************************************************************************)
(* Properties of the response normalizer.                                  *)
(***************************************************************************)
\* the text the JSON steps hand to JSON.parse: the fenced text when there is a
\* fence, else the trimmed response
JsonCandidate(text) == IF jsonMatch(text) THEN jsonMatchGroup(text) ELSE Trim(text)

LooksLikeJson(text) ==
  \/ jsonMatch(text)
  \/ At(Trim(text), 1) \in {"[", "{"}

\* C12: parseReviewResponse never throws; with a fence the fenced text is
\* parsed as JSON, without one the trimmed text is when it starts with "[" or
\* "{"; when that JSON parse succeeds its value is returned, and when it fails,
\* or when neither step applies, the line scanner's output on the whole
\* response text is returned.
C12_NeverThrowsFallsBack ==
  pc = "normalized" =>
    /\ ~parsed[1].threw
    /\ parsed[1].v =
         IF LooksLikeJson(responseText) /\ JsonParse(JsonCandidate(responseText)).ok
         THEN JsonParse(JsonCandidate(responseText)).v
         ELSE parseTextResponse(responseText)

\* C12 witness: the fenced text is not JSON, and the scanner found the comment
\* that is written in the line format inside the fence
C12_Witness ==
  /\ pc = "normalized"
  /\ responseText = Fenced(ScannerComment)
  /\ ~JsonParse(jsonMatchGroup(responseText)).ok
  /\ ~parsed[1].threw
  /\ parsed[1].v.t = "array"
  /\ Len(parsed[1].v.items) = 1
  /\ parsed[1].v.items[1].fields[KeyFile] = JStr(PathA)

\* C13: whatever the response text, the normalizer returns a list, and for a
\* fenced well-formed JSON array of n comment objects the list holds exactly
\* these n objects with the same fields.
C13_AlwaysAList ==
  pc = "normalized" =>
    /\ parsed[1].v.t = "array"
    /\ \A a \in CommentArrays :
         responseText = Fenced(Render(a)) => parsed[1].v = a

(***************************************************************************)
(* Properties of the command line.                                         *)
(***************************************************************************)
\* the command ran its review to completion: reviewChanges returned a result
\* and no GitHub call failed
RanToCompletion ==
  /\ pc = "exited"
  /\ result # None
  /\ \A k \in 1..Len(githubCalls) : githubCalls[k].ok

\* C14: a command that ran its review to completion exits with 0 when the
\* result is approved and with 1 when it is not, be it review or github-action.
C14_ExitCodeFollowsApproval ==
  RanToCompletion => exitCode = Some(IF result[1].approved THEN 0 ELSE 1)

\* C15: the review command with --no-github makes no GitHub call whatever the
\* environment holds; without --no-github, with GITHUB_TOKEN set and the URL
\* of a pull request in the environment, it posts its result to GitHub.
C15_NoGithubSkipsPosting ==
  (pc = "exited" /\ command = "review") =>
    /\ ~options.github => githubCalls = <<>>
    /\ (options.github /\ result # None /\ env.GITHUB_TOKEN /\ env.prUrl = "pull")
         => githubCalls # <<>>

(***************************************************************************)
(* Properties of hunks.                                                    *)
(***************************************************************************)
\* the positions in a block's body of the hunk headers the parser accepts
ValidHeaderPositions(block) ==
  SelectSeq([i \in 1..Len(block.body) |-> i], LAMBDA i : hunkMatch(block.body[i]))

\* the lines after the header at position p up to the next line that starts
\* with "@@" or to the end of the block
RegionOf(block, p) ==
  LET later == {q \in (p + 1)..Len(block.body) : IsHunkLine(block.body[q])}
  IN  SubSeq(block.body, p + 1, IF later = {} THEN Len(block.body) ELSE SetMin(later) - 1)

NonEmpty(lines) == SelectSeq(lines, LAMBDA l : l # <<>>)

RECURSIVE Flatten(_)
Flatten(seqs) == IF seqs = <<>> THEN <<>> ELSE seqs[1] \o Flatten(Tail(seqs))

\* the lines of a block that belong to a hunk with a valid header
RegionLines(block) ==
  Flatten([h \in 1..Len(ValidHeaderPositions(block)) |->
             RegionOf(block, ValidHeaderPositions(block)[h])])

Marked(lines, mark) ==
  LET hits == SelectSeq(lines, LAMBDA l : StartsWith(l, <<mark>>)
                                          /\ ~StartsWith(l, <<mark, mark, mark>>))
  IN  [k \in 1..Len(hits) |-> Tail(hits[k])]

\* C19: a line that starts with "@@" and is no valid hunk header opens no hunk
\* and adds none: a file's hunks are those of its valid headers, once each,
\* each with the lines up to the next "@@" line, and the lines after a
\* malformed header are in no hunk and in no additions, deletions or context
\* list (empty lines are left out of the comparison).
C19_MalformedHeaderIgnored ==
  pc = "parsed" =>
    LET kept == SelectSeq(BlocksOf(diff), LAMBDA b :
                  fileMatch(b.header) /\ Len(ValidHeaderPositions(b)) >= 1)
    IN  /\ Len(changes) = Len(kept)
        /\ \A j \in 1..Len(kept) :
             LET at == ValidHeaderPositions(kept[j])
             IN  /\ Len(changes[j].hunks) = Len(at)
                 /\ \A h \in 1..Len(at) :
                      /\ [changes[j].hunks[h] EXCEPT !.lines = <<>>]
                           = NewHunk(kept[j].body[at[h]])
                      /\ NonEmpty(changes[j].hunks[h].lines)
                           = NonEmpty(RegionOf(kept[j], at[h]))
                 /\ changes[j].additions = Marked(RegionLines(kept[j]), "+")
                 /\ changes[j].deletions = Marked(RegionLines(kept[j]), "-")
                 /\ changes[j].context = Marked(RegionLines(kept[j]), " ")

\* C20: every line stored in a hunk starts with "+", "-" or a space.
C20_HunkLinesAreMarked ==
  pc = "parsed" =>
    \A j \in 1..Len(changes) : \A h \in 1..Len(changes[j].hunks) :
      \A k \in 1..Len(changes[j].hunks[h].lines) :
        At(changes[j].hunks[h].lines[k], 1) \in {"+", "-", " "}

(***************************************************************************)
(* Properties of the line scanner.                                         *)
(***************************************************************************)
FileLabel == <<"F", "i", "l", "e", ":">>
MessageLabel == <<"M", "e", "s", "s", "a", "g", "e", ":">>

\* the records of a text: one for each line that starts with "File:", made of
\* that line and the lines up to the next such line; file is the trimmed rest
\* of the first line, message the trimmed rest of the record's last
\* "Message:" line, hasMessage whether there is such a line
RecordsOf(text) ==
  LET lines  == SplitOn(text, "\n")
      starts == SelectSeq([i \in 1..Len(lines) |-> i],
                          LAMBDA i : StartsWith(lines[i], FileLabel))
  IN  [k \in 1..Len(starts) |->
         LET last == IF k < Len(starts) THEN starts[k + 1] - 1 ELSE Len(lines)
             msgs == {i \in starts[k]..last : StartsWith(lines[i], MessageLabel)}
         IN  [file       |-> Trim(From(lines[starts[k]], Len(FileLabel) + 1)),
              hasMessage |-> msgs # {},
              message    |-> IF msgs = {} THEN <<>>
                             ELSE Trim(From(lines[SetMax(msgs)], Len(MessageLabel) + 1)),
              final      |-> k = Len(starts)]]

\* the records the scanner is to emit
Emitted(text) ==
  SelectSeq(RecordsOf(text),
            LAMBDA r : r.file # <<>> /\ (r.final => r.message # <<>>))

\* C21: the scanner returns, in input order, the record of every "File:" line
\* but the last that has a non-empty file, with or without a message, and the
\* record of the last "File:" line when it has a non-empty file and a
\* non-empty message; fields scanned before the first "File:" line are in no
\* record, and every returned record has a non-empty file.
C21_ScannerEmission ==
  pc = "scanned" =>
    LET items    == parsed[1].v.items
        expected == Emitted(responseText)
    IN  /\ parsed[1].v.t = "array"
        /\ Len(items) = Len(expected)
        /\ \A k \in 1..Len(items) :
             /\ items[k].fields[KeyFile] = JStr(expected[k].file)
             /\ expected[k].file # <<>>
             /\ (KeyMessage \in DOMAIN items[k].fields) = expected[k].hasMessage
             /\ expected[k].hasMessage =>
                  items[k].fields[KeyMessage] = JStr(expected[k].message)

\* C21 witness: a message before the first "File:" line, a record without a
\* message that was returned, and a last record without a message that was not
C21_Witness ==
  /\ pc = "scanned"
  /\ responseText = Join(<< <<"M","e","s","s","a","g","e",":"," ","m">>,
                            <<"F","i","l","e",":"," ","a",".","t","s">>,
                            <<"F","i","l","e",":"," ","b",".","m","d"," ">> >>)
  /\ Len(parsed[1].v.items) = 1
  /\ parsed[1].v.items[1].fields[KeyFile] = JStr(PathA)
  /\ KeyMessage \notin DOMAIN parsed[1].v.items[1].fields

(***************************************************************************)
(* Properties of the comments in the returned result.                      *)
(***************************************************************************)
\* C22: every comment in the returned result carries an integer line of at
\* least 1; a provider comment whose line is missing, zero, negative or not
\* a number is not in the result.
C22_LinesAreOneBased ==
  result # None =>
    \A k \in 1..Len(result[1].comments) :
      /\ result[1].comments[k].line.t = "number"
      /\ result[1].comments[k].line.n >= 1

\* C23: the result's comments are the concatenation, in the order of the
\* reviewable files, of each file's contribution: the list changes only when
\* a call settles, and then by the current file's surviving comments in the
\* provider's order, or its one failure comment, appended at the end; the
\* files are taken in order, and the returned result holds the list as it is.
C23_ConcatenationInFileOrder ==
  [][/\ pc # "settled" => allComments' = allComments
     /\ pc = "settled" =>
          /\ calls[Len(calls)].file = reviewableChanges[Len(calls)].file
          /\ LET n   == Len(allComments)
                  own == SubSeq(allComments', n + 1, Len(allComments'))
              IN  /\ Len(allComments') >= n
                  /\ SubSeq(allComments', 1, n) = allComments
                  /\ IF response.kind = "throw" \/ ValidationThrows(response)
                     THEN own = <<Comment(CurrentChange.file, Number(1),
                                          "Failed to review file: <error>",
                                          "warning", "code-quality", "")>>
                     ELSE own = Contribution(config, response.items, CurrentChange.file)
          /\ pc' = "reviewing" =>
               /\ Len(calls') = Len(calls) + 1
               /\ calls'[Len(calls')].file = reviewableChanges[Len(calls) + 1].file
          /\ pc' = "returned" => result'[1].comments = allComments'
    ]_vars

\* C23 witness: two files were reviewed; the first file's two comments, in the
\* provider's order, come before the second file's comment
C23_Witness ==
  /\ pc = "returned"
  /\ Len(calls) = 2
  /\ calls[1].outcome = "ok"
  /\ calls[2].outcome = "ok"
  /\ calls[1].file # calls[2].file
  /\ result # None
  /\ Len(result[1].comments) = 3
  /\ result[1].comments[1].file = PathOther
  /\ result[1].comments[2].file = calls[1].file
  /\ result[1].comments[3].file = calls[2].file

\* C24: every comment in the result has a non-empty file: each comment a
\* settled call adds is one of the provider's comments with its file kept
\* when it names one and set to the path of the change under review when it
\* names none, and with every other field as the provider returned it.
C24_OnlyFileIsStamped ==
  [][/\ (pc = "settled" /\ ~(response.kind = "throw" \/ ValidationThrows(response))) =>
          \A k \in (Len(allComments) + 1)..Len(allComments') :
            \E j \in 1..Len(response.items) :
              LET returned == response.items[j].v
                  kept     == allComments'[k]
              IN  /\ \A field \in DOMAIN returned \ {"file"} :
                       kept[field] = returned[field]
                  /\ DOMAIN kept = DOMAIN returned
                  /\ returned.file # <<>> => kept.file = returned.file
                  /\ returned.file = <<>> => kept.file = CurrentChange.file
     /\ result' # None =>
          \A k \in 1..Len(result'[1].comments) : result'[1].comments[k].file # <<>>
    ]_vars

\* C24 witness: the result of a one-file run holds a comment that kept the
\* file the provider named and a comment stamped with the change's path
C24_Witness ==
  /\ pc = "returned"
  /\ Len(calls) = 1
  /\ calls[1].file # PathOther
  /\ response.kind = "array"
  /\ Len(response.items) = 2
  /\ response.items[1] = ObjectItem(Comment(<<>>, Number(3), "use const", "warning",
                                             "style", "const x"))
  /\ response.items[2].kind = "object"
  /\ response.items[2].v.file = PathOther
  /\ result # None
  /\ Len(result[1].comments) = 2
  /\ result[1].comments[1] = Comment(calls[1].file, Number(3), "use const", "warning",
                                      "style", "const x")
  /\ result[1].comments[2] = response.items[2].v

(***************************************************************************)
(* Properties of the github-action command's GitHub calls.                 *)
(***************************************************************************)
\* the calls the github-action command is to make after the review, as pairs
\* of method and argument
ExpectedPosts(r) ==
  LET status   == << <<"addStatusCheck", IF r.approved THEN "success" ELSE "failure">> >>
      comments == IF r.comments # <<>> THEN << <<"addReviewComments", "COMMENT">> >>
                  ELSE <<>>
      review   == << <<"approveOrRequestChanges",
                       IF r.approved THEN "APPROVE" ELSE "REQUEST_CHANGES">> >>
  IN  status \o comments \o review

\* C25: after the review the github-action command calls, in this order, the
\* commit status (success when the result is approved, else failure), one
\* review with the comments when there are some and none when there are
\* none, and one review with event APPROVE when the result is approved, else
\* REQUEST_CHANGES; after a call that fails no call is made and the exit
\* code is 1.
C25_ActionCallsInOrder ==
  (pc = "exited" /\ command = "github-action" /\ result # None) =>
    LET posts    == Tail(githubCalls)
        expected == ExpectedPosts(result[1])
    IN  /\ githubCalls[1].api = "getPRInfo"
        /\ Len(posts) \in 1..Len(expected)
        /\ \A k \in 1..Len(posts) :
             /\ <<posts[k].api, posts[k].arg>> = expected[k]
             /\ k < Len(posts) => posts[k].ok
        /\ posts[Len(posts)].ok => Len(posts) = Len(expected)
        /\ ~posts[Len(posts)].ok => exitCode = Some(1)

\* C25 witness: the result was not approved and had a comment; the status was
\* failure, the comments were posted and changes were requested
C25_Witness ==
  /\ pc = "exited"
  /\ command = "github-action"
  /\ result # None
  /\ ~result[1].approved
  /\ Len(result[1].comments) = 1
  /\ githubCalls = <<GitHubCall(getPRInfo, TRUE),
                      GitHubCall(addStatusCheck("failure"), TRUE),
                      GitHubCall(addReviewComments(result[1].comments), TRUE),
                      GitHubCall(approveOrRequestChanges(FALSE), TRUE)>>

\* C25 witness of a failure: the comments call failed, no approval call
\* followed and the exit code is 1
C25_WitnessFailure ==
  /\ pc = "exited"
  /\ command = "github-action"
  /\ result # None
  /\ Len(githubCalls) = 3
  /\ githubCalls[3].api = "addReviewComments"
  /\ ~githubCalls[3].ok
  /\ exitCode = Some(1)

(***************************************************************************)
(* Properties of the approval decision.                                    *)
(***************************************************************************)
\* C26: the approval does not depend on autoApprove: whatever the comments
\* and requireApprovalFor of a returned result, the decision taken with
\* autoApprove unset, true or false in an otherwise equal configuration is
\* the approved value of the result; and a result without comments is
\* approved, also when autoApprove is unset or false.
C26_ApprovalIgnoresAutoApprove ==
  result # None =>
    /\ \A auto \in {None, Some(TRUE), Some(FALSE)} :
         shouldApprove([config EXCEPT !.autoApprove = auto], result[1].comments)
           = result[1].approved
    /\ result[1].comments = <<>> => result[1].approved

\* C26 witness: a review whose provider was called returned no comment and
\* is approved with autoApprove unset or false
C26_Witness ==
  /\ pc = "returned"
  /\ calls # <<>>
  /\ config.autoApprove \in {None, Some(FALSE)}
  /\ result # None
  /\ result[1].comments = <<>>
  /\ result[1].approved

\* C26 witness with comments: a result that is not approved although
\* autoApprove is true
C26_WitnessBlocked ==
  /\ pc = "returned"
  /\ config.autoApprove = Some(TRUE)
  /\ result # None
  /\ ~result[1].approved

(***************************************************************************)
(* Properties of the provider's construction.                              *)
(***************************************************************************)
\* C27: the provider is constructed only when a file is reviewable, and a
\* construction that fails, for a missing API key or a provider name that is
\* not supported, makes reviewChanges raise: no result is returned, no
\* comment is put in the list and nothing happens afterwards; with no
\* reviewable file the provider is not constructed and the empty approved
\* result is returned whatever the provider configuration is.
C27_ProviderFailureIsFatal ==
  [][/\ pc # "raised"
     /\ provider' # provider => pc = "loading"
     /\ pc = "loading" =>
          /\ Len(reviewableChanges) >= 1
          /\ (config.aiProvider = None
                \/ config.aiProvider[1] \notin {"openai", "anthropic"}) => pc' = "raised"
          /\ provider' \in {"created", "environment variable is required",
                             "Unsupported AI provider"}
          /\ provider' # "created" <=> pc' = "raised"
          /\ provider' = "created" <=> pc' = "reviewing"
          /\ pc' = "raised" => result' = None /\ allComments' = <<>> /\ calls' = <<>>
     /\ (pc = "start" /\ diff' # GitError /\ reviewableChanges' = <<>>) =>
          /\ pc' = "returned"
          /\ provider' = "none"
          /\ result' # None
          /\ result'[1].comments = <<>>
          /\ result'[1].approved
    ]_vars

\* C27 witness: with a reviewable file and the API key missing the run raised
\* without a result
C27_Witness ==
  /\ pc = "raised"
  /\ Len(reviewableChanges) >= 1
  /\ config.aiProvider = Some("openai")
  /\ provider = "environment variable is required"
  /\ result = None
  /\ allComments = <<>>

\* C27 witness of the other case: a provider name that is not supported and
\* no reviewable file; the empty approved result was returned
C27_WitnessNothingReviewable ==
  /\ pc = "returned"
  /\ config.aiProvider = Some("gemini")
  /\ changes # <<>>
  /\ reviewableChanges = <<>>
  /\ provider = "none"
  /\ result # None
  /\ result[1].approved

\* C27 witness of a provider name that is not supported, with its API key set
C27_WitnessUnsupported ==
  /\ pc = "raised"
  /\ config.aiProvider = Some("gemini")
  /\ provider = "Unsupported AI provider"
  /\ result = None

====
